---- MODULE Spec2Model ----
(***************************************************************************)
(* Queue-triggered PDF ingestion pipeline of prod-ocr/function_app.py:     *)
(* the orchestrator process_pdf_file, the lazily built client handles, the *)
(* request validators, DocumentSplitter.split_and_save and the error       *)
(* taxonomy that decides between notify-only and notify-and-redeliver.     *)
(***************************************************************************)
EXTENDS Integers, Sequences, FiniteSets, TLC

\* ------------------------------------------------------------------ bounds
\* Deliveries of one queue message the host makes before it parks the
\* message on the poison queue.
MaxDeliveries == 2
\* Distinct values secrets.token_hex(16) can return in the model.
MaxDirNames == 2
\* Pages of the largest source handed to extract_pdf_pages on its own; the
\* page numbers asked for run from -1 to two past it.
MaxSourcePages == 3
\* Invocations the worker process runs at the same time.
MaxThreads == 2
\* Length of the short correlation keys handed to validate_correlation_key
\* (keys of MAX_KEY_LEN and MAX_KEY_LEN + 1 characters are added to them).
MaxKeyChars == 3

\* ------------------------------------------------------- program constants
MAX_OUTPUT_FILES == 100
MAX_PAGES == 500
\* MAX_PDF_SIZE_BYTES in KiB (10000 * 1024); file sizes are counted in KiB,
\* a non-empty file having size >= 1.
MAX_PDF_SIZE_KB == 10240000
MAX_URL_LEN == 2048
MAX_KEY_LEN == 128
MAX_RETRIES == 3

None == "None"

\* ------------------------------------------------------------ error texts
\* A text is a sequence of tokens.  Three tokens stand for the secret
\* shapes sanitize_error_message redacts.
SecretAccountKey == "AccountKey=s3cr3t"
SecretApiKey == "api_key=s3cr3t"
SecretToken40 == "Zx40CharOpaqueToken"

sanitize_token(t) ==
    CASE t = SecretAccountKey -> "AccountKey=***REDACTED***"
      [] t = SecretApiKey -> "api_key=***REDACTED***"
      [] t = SecretToken40 -> "***REDACTED***"
      [] OTHER -> t

sanitize_error_message(error) ==
    [i \in 1..Len(error) |-> sanitize_token(error[i])]

\* ------------------------------------------------------------- exceptions
TRANSIENT == "transient"
PERMANENT == "permanent"
CRITICAL == "critical"

NoExc == [type |-> None, severity |-> None, msg |-> <<>>]
ValidationError(msg) == [type |-> "ValidationError", severity |-> None, msg |-> msg]
ConfigurationError(msg) == [type |-> "ConfigurationError", severity |-> None, msg |-> msg]
ProcessingError(msg, severity) == [type |-> "ProcessingError", severity |-> severity, msg |-> msg]
\* Any exception class outside the three above (ValueError, KeyError,
\* OSError, AzureError, ...); cls keeps the Python class name.
PyError(cls, msg) == [type |-> cls, severity |-> None, msg |-> msg]

IsExc(e) == e.type # None

\* ------------------------------------------------------ request validation
Lower == {"a","b","c","d","e","f","g","h","i","j","k","l","m",
          "n","o","p","q","r","s","t","u","v","w","x","y","z"}
Upper == {"A","B","C","D","E","F","G","H","I","J","K","L","M",
          "N","O","P","Q","R","S","T","U","V","W","X","Y","Z"}
Digit == {"0","1","2","3","4","5","6","7","8","9"}
KeyAlphabet == Lower \cup Upper \cup Digit \cup {"-", "_"}

\* JSON values of the message fields.  A string carries its length and a
\* payload: the character sequence for a correlation key, the parsed
\* urlparse() result for a URL.
JAbsent == [t |-> "absent", len |-> 0, v |-> <<>>]
JNull == [t |-> "null", len |-> 0, v |-> <<>>]
JInt(n) == [t |-> "int", len |-> n, v |-> <<>>]
JKey(chars) == [t |-> "str", len |-> Len(chars), v |-> chars]
JUrl(len, scheme, hostname, path) ==
    [t |-> "str", len |-> len,
     v |-> [scheme |-> scheme, hostname |-> hostname, path |-> path]]

\* Python truthiness of a JSON value.
Truthy(j) ==
    CASE j.t = "absent" -> FALSE
      [] j.t = "null" -> FALSE
      [] OTHER -> j.len # 0

PyOr(a, b) == IF Truthy(a) THEN a ELSE b

\* re.match(r'^[a-zA-Z0-9\-_]{1,128}$', key): '$' also matches just before
\* one trailing newline.
CORRELATION_KEY_PATTERN(chars) ==
    LET n == Len(chars)
        body == IF n > 0 /\ chars[n] = "\n" THEN SubSeq(chars, 1, n - 1) ELSE chars
    IN  /\ Len(body) >= 1
        /\ Len(body) <= MAX_KEY_LEN
        /\ \A i \in 1..Len(body) : body[i] \in KeyAlphabet

\* PurePosixPath(key).parts for a relative or absolute path: the segments
\* between '/' with empty and '.' segments dropped, a leading "/" kept as a
\* part of its own.
SplitSlash(chars) ==
    LET n == Len(chars)
        cuts == <<0>> \o SelectSeq([i \in 1..n |-> i], LAMBDA i : chars[i] = "/")
                     \o <<n + 1>>
    IN  [j \in 1..(Len(cuts) - 1) |-> SubSeq(chars, cuts[j] + 1, cuts[j + 1] - 1)]

PurePosixPathParts(chars) ==
    LET segs == SplitSlash(chars)
        kept == SelectSeq(segs, LAMBDA s : s # <<>> /\ s # <<".">>)
    IN  IF Len(chars) > 0 /\ chars[1] = "/" THEN <<(<<"/">>)>> \o kept ELSE kept

RECURSIVE JoinSlash(_)
JoinSlash(parts) ==
    IF parts = <<>> THEN <<>>
    ELSE IF Len(parts) = 1 THEN parts[1]
    ELSE IF parts[1] = <<"/">> THEN <<"/">> \o JoinSlash(Tail(parts))
    ELSE parts[1] \o <<"/">> \o JoinSlash(Tail(parts))

PurePosixPathStr(chars) ==
    LET parts == PurePosixPathParts(chars)
    IN  IF parts = <<>> THEN <<".">> ELSE JoinSlash(parts)

\* validate_correlation_key: NoExc when the key is returned unchanged.
validate_correlation_key(key) ==
    IF ~Truthy(key) THEN ValidationError(<<"Correlation key is required">>)
    ELSE IF ~CORRELATION_KEY_PATTERN(key.v)
    THEN ValidationError(<<"Invalid correlation key format">>)
    ELSE IF Len(PurePosixPathParts(key.v)) # 1 \/ PurePosixPathStr(key.v) # key.v
    THEN ValidationError(<<"Correlation key must not contain path separators">>)
    ELSE NoExc

ALLOWED_BLOB_DOMAIN == <<"blob", "core", "windows", "net">>

\* hostname.endswith('.blob.core.windows.net') on a hostname held as its
\* dot-separated labels: the suffix with at least one label before it.
EndsWithBlobDomain(hostname) ==
    LET n == Len(hostname)
        k == Len(ALLOWED_BLOB_DOMAIN)
    IN  n > k /\ SubSeq(hostname, n - k + 1, n) = ALLOWED_BLOB_DOMAIN

\* Python values compared with != : a str and a list are never equal.
PyStr(s) == [t |-> "str", v |-> s]
PyList(items) == [t |-> "list", v |-> items]
PyNe(a, b) == a.t # b.t \/ a.v # b.v

\* validate_blob_url: NoExc when the URL is returned unchanged.
validate_blob_url(url, allowed_container) ==
    IF ~Truthy(url) THEN ValidationError(<<"Blob URL is required">>)
    ELSE IF url.len > MAX_URL_LEN THEN ValidationError(<<"Blob URL too long">>)
    ELSE IF url.v.scheme # "https" THEN ValidationError(<<"Blob URL must use HTTPS">>)
    ELSE IF url.v.hostname = <<>> THEN ValidationError(<<"Blob URL missing hostname">>)
    ELSE IF ~EndsWithBlobDomain(url.v.hostname)
    THEN ValidationError(<<"URL must be Azure Blob Storage">>)
    ELSE IF Len(url.v.path) < 2 THEN ValidationError(<<"Invalid blob URL path format">>)
    ELSE IF PyNe(PyStr(url.v.path[1]), allowed_container)
    THEN ValidationError(<<"Unauthorized container">>)
    ELSE NoExc

\* A queue message body: whether it decodes as UTF-8, parses as JSON, the
\* type of the top-level value and, for an object, the four keys read.
Body(utf8, json, top, ck, ck_snake, url, url_snake) ==
    [utf8 |-> utf8, json |-> json, top |-> top,
     correlationKey |-> ck, correlation_key |-> ck_snake,
     pdfBlobUrl |-> url, pdf_blob_url |-> url_snake]

\* parse_queue_message without its isinstance check of the correlation key.
parse_queue_message_key_unchecked(message_body) ==
    LET correlation_key == PyOr(message_body.correlationKey, message_body.correlation_key)
        pdf_blob_url == PyOr(message_body.pdfBlobUrl, message_body.pdf_blob_url)
        fail(text) == [exc |-> ValidationError(<<text>>),
                       correlationKey |-> JAbsent, pdfBlobUrl |-> JAbsent]
    IN  IF ~message_body.utf8 THEN fail("Invalid UTF-8 encoding in message")
        ELSE IF ~message_body.json THEN fail("Invalid JSON in message")
        ELSE IF message_body.top # "dict" THEN fail("Expected JSON object")
        ELSE IF ~Truthy(correlation_key) THEN fail("Missing required field: correlationKey")
        ELSE IF ~Truthy(pdf_blob_url) THEN fail("Missing required field: pdfBlobUrl")
        ELSE IF pdf_blob_url.t # "str" THEN fail("pdfBlobUrl must be string")
        ELSE [exc |-> NoExc, correlationKey |-> correlation_key,
              pdfBlobUrl |-> pdf_blob_url]

\* parse_queue_message: the exception raised, or NoExc and the request.
parse_queue_message(message_body) ==
    LET correlation_key == PyOr(message_body.correlationKey, message_body.correlation_key)
        pdf_blob_url == PyOr(message_body.pdfBlobUrl, message_body.pdf_blob_url)
        fail(text) == [exc |-> ValidationError(<<text>>),
                       correlationKey |-> JAbsent, pdfBlobUrl |-> JAbsent]
    IN  IF ~message_body.utf8 THEN fail("Invalid UTF-8 encoding in message")
        ELSE IF ~message_body.json THEN fail("Invalid JSON in message")
        ELSE IF message_body.top # "dict" THEN fail("Expected JSON object")
        ELSE IF ~Truthy(correlation_key) THEN fail("Missing required field: correlationKey")
        ELSE IF ~Truthy(pdf_blob_url) THEN fail("Missing required field: pdfBlobUrl")
        ELSE IF correlation_key.t # "str" THEN fail("correlationKey must be string")
        ELSE IF pdf_blob_url.t # "str" THEN fail("pdfBlobUrl must be string")
        ELSE [exc |-> NoExc, correlationKey |-> correlation_key,
              pdfBlobUrl |-> pdf_blob_url]

\* ValidatedRequest.from_queue_message
from_queue_message(message_body, allowed_containers) ==
    LET request == parse_queue_message(message_body)
        e1 == validate_correlation_key(request.correlationKey)
        e2 == validate_blob_url(request.pdfBlobUrl, allowed_containers)
        fail(e) == [exc |-> e, correlation_key |-> JAbsent, pdf_blob_url |-> JAbsent]
    IN  IF IsExc(request.exc) THEN fail(request.exc)
        ELSE IF IsExc(e1) THEN fail(e1)
        ELSE IF IsExc(e2) THEN fail(e2)
        ELSE [exc |-> NoExc, correlation_key |-> request.correlationKey,
              pdf_blob_url |-> request.pdfBlobUrl]

\* The messages a producer may put on the tasks queue.
InputContainer == "inbox"
GoodHost == <<"acct", "blob", "core", "windows", "net">>
GoodUrl == JUrl(46, "https", GoodHost, <<InputContainer, "doc.pdf">>)
GoodKey == JKey(<<"a", "b", "c", "1", "2", "3">>)
OtherKey == JKey(<<"k", "_", "9">>)

M_valid == Body(TRUE, TRUE, "dict", GoodKey, JAbsent, GoodUrl, JAbsent)
M_snake == Body(TRUE, TRUE, "dict", JAbsent, OtherKey, JAbsent, GoodUrl)
M_bad_utf8 == Body(FALSE, FALSE, "dict", JAbsent, JAbsent, JAbsent, JAbsent)
M_bad_json == Body(TRUE, FALSE, "dict", JAbsent, JAbsent, JAbsent, JAbsent)
M_list == Body(TRUE, TRUE, "list", JAbsent, JAbsent, JAbsent, JAbsent)
M_no_key == Body(TRUE, TRUE, "dict", JAbsent, JNull, GoodUrl, JAbsent)
M_key_int == Body(TRUE, TRUE, "dict", JInt(7), JAbsent, GoodUrl, JAbsent)
M_key_traversal == Body(TRUE, TRUE, "dict", JKey(<<".", ".", "/", "x">>), JAbsent,
                        GoodUrl, JAbsent)
M_no_url == Body(TRUE, TRUE, "dict", GoodKey, JAbsent, JAbsent, JAbsent)
M_url_http == Body(TRUE, TRUE, "dict", GoodKey, JAbsent,
                   JUrl(45, "http", GoodHost, <<InputContainer, "doc.pdf">>), JAbsent)
M_url_host == Body(TRUE, TRUE, "dict", GoodKey, JAbsent,
                   JUrl(37, "https", <<"store", "example", "com">>,
                        <<InputContainer, "doc.pdf">>), JAbsent)
M_url_container == Body(TRUE, TRUE, "dict", GoodKey, JAbsent,
                        JUrl(47, "https", GoodHost, <<"secrets", "doc.pdf">>), JAbsent)
M_url_long == Body(TRUE, TRUE, "dict", GoodKey, JAbsent,
                   JUrl(2049, "https", GoodHost, <<InputContainer, "doc.pdf">>), JAbsent)

Messages == {M_valid, M_snake, M_bad_utf8, M_bad_json, M_list, M_no_key, M_key_int,
             M_key_traversal, M_no_url, M_url_http, M_url_host, M_url_container,
             M_url_long}

\* -------------------------------------------------------------- PDF files
\* A local file: its size in KiB, whether pypdf can read it, and its pages
\* (each page is named by its 1-based position in the source).
PdfFile(size, readable, n) ==
    [exists |-> TRUE, size |-> size, readable |-> readable, pages |-> [i \in 1..n |-> i]]
NoFile == [exists |-> FALSE, size |-> 0, readable |-> FALSE, pages |-> <<>>]

\* validate_pdf_file
validate_pdf_file(f) ==
    IF ~f.exists THEN ValidationError(<<"PDF file not found">>)
    ELSE IF f.size = 0 THEN ValidationError(<<"PDF file is empty">>)
    ELSE IF f.size > MAX_PDF_SIZE_KB THEN ValidationError(<<"PDF file too large">>)
    ELSE IF ~f.readable THEN ValidationError(<<"Invalid PDF file or corrupted">>)
    ELSE IF Len(f.pages) = 0 THEN ValidationError(<<"PDF has no pages">>)
    ELSE IF Len(f.pages) > MAX_PAGES THEN ValidationError(<<"PDF has too many pages">>)
    ELSE NoExc

\* The blobs a source URL may hold.
Blobs == {PdfFile(40, TRUE, 3), PdfFile(12, TRUE, 1), PdfFile(0, FALSE, 0),
          PdfFile(MAX_PDF_SIZE_KB + 1, TRUE, 3), PdfFile(9, FALSE, 0),
          PdfFile(5, TRUE, 0), PdfFile(900, TRUE, MAX_PAGES + 1)}

\* -------------------------------------------------------- storage client
\* What one attempt of an SDK call can do.
AttemptOutcomes == {"ok", "ServiceRequestError", "ServiceResponseError",
                    "ResourceNotFoundError", "HttpResponseError"}
Attempts == [1..MAX_RETRIES -> AttemptOutcomes]

\* str(e) of the SDK's exceptions.
SdkErrorText(cls) ==
    CASE cls = "ServiceRequestError" -> <<"connection timed out">>
      [] cls = "ServiceResponseError" -> <<"connection reset", SecretToken40>>
      [] cls = "ResourceNotFoundError" -> <<"The specified blob does not exist">>
      [] OTHER -> <<"AuthenticationFailed", SecretAccountKey>>

\* The retry loop shared by download_blob and upload_file, from attempt
\* number attempt (0-based) on: the exception raised, or NoExc.
RECURSIVE retry_loop(_, _)
retry_loop(attempts, attempt) ==
    IF attempt >= MAX_RETRIES THEN PyError("AzureError", <<"failed after all retries">>)
    ELSE LET o == attempts[attempt + 1]
         IN  IF o = "ok" THEN NoExc
             ELSE IF o \in {"ServiceRequestError", "ServiceResponseError"}
             THEN IF attempt = MAX_RETRIES - 1
                  THEN PyError(o, SdkErrorText(o))
                  ELSE retry_loop(attempts, attempt + 1)
             ELSE PyError(o, SdkErrorText(o))

\* AzureStorageClient.download_blob
download_blob(attempts) == retry_loop(attempts, 0)

\* AzureStorageClient.upload_file
upload_file(f, attempts) ==
    IF ~f.exists THEN PyError("FileNotFoundError", <<"File not found">>)
    ELSE retry_loop(attempts, 0)

\* download_pdf without its call of validate_pdf_file.
download_pdf_unvalidated(attempts, blob) ==
    LET d == download_blob(attempts)
    IN  IF IsExc(d)
        THEN [exc |-> ProcessingError(<<"Failed to download PDF:">>
                                       \o sanitize_error_message(d.msg), TRANSIENT),
              file |-> NoFile, validated |-> FALSE]
        ELSE [exc |-> NoExc, file |-> blob, validated |-> FALSE]

\* download_pdf: download, then validate_pdf_file; every failure becomes a
\* ProcessingError.  validated tells whether validate_pdf_file was run.
download_pdf(attempts, blob) ==
    LET d == download_blob(attempts)
        v == validate_pdf_file(blob)
    IN  IF IsExc(d)
        THEN [exc |-> ProcessingError(<<"Failed to download PDF:">>
                                       \o sanitize_error_message(d.msg), TRANSIENT),
              file |-> NoFile, validated |-> FALSE]
        ELSE IF IsExc(v)
        THEN [exc |-> ProcessingError(v.msg, PERMANENT), file |-> blob, validated |-> TRUE]
        ELSE [exc |-> NoExc, file |-> blob, validated |-> TRUE]

\* ---------------------------------------------------------- model replies
\* A reply of the model: the API call raises, or returns a text made of an
\* optional opening fence, a body and an optional closing fence.
Reply(raises, head, body, tail) ==
    [raises |-> raises, head |-> head, body |-> body, tail |-> tail]
\* A parsed JSON value: a list holds its items, any other value is held
\* whole in object.
NoObject == [t |-> None]
JsonGarbage == [kind |-> "garbage", isList |-> FALSE, items |-> <<>>, object |-> NoObject]
JsonEmpty == [kind |-> "empty", isList |-> FALSE, items |-> <<>>, object |-> NoObject]
JsonList(items) == [kind |-> "value", isList |-> TRUE, items |-> items, object |-> NoObject]
JsonObject(item) == [kind |-> "value", isList |-> FALSE, items |-> <<>>, object |-> item]
\* if not isinstance(documents, list): documents = [documents]
AsList(value) == IF value.isList THEN value.items ELSE <<value.object>>

TextIsEmpty(r) == r.head = "" /\ r.tail = "" /\ r.body.kind = "empty"

\* The markdown code-fence markers (three backticks, with and without the
\* json language tag).
Fence == "<fence>"
FenceJson == "<fence>json"

\* DocumentSplitter._call_gemini_with_pdf: the exception raised, or NoExc.
_call_gemini_with_pdf(r) ==
    IF r.raises # None THEN PyError(r.raises, <<"model call failed", SecretApiKey>>)
    ELSE IF TextIsEmpty(r) THEN PyError("ValueError", <<"Gemini returned empty response">>)
    ELSE NoExc

\* DocumentSplitter._clean_json_response
_clean_json_response(r) ==
    LET a == IF r.head \in {FenceJson, Fence} THEN [r EXCEPT !.head = ""] ELSE r
    IN  IF a.tail = Fence THEN [a EXCEPT !.tail = ""] ELSE a

\* _clean_json_response on the characters of the text; BT is one backtick.
BT == "BT"
Whitespace == {" ", "\n", "\t", "\r"}
StartsWith(text, prefix) ==
    Len(text) >= Len(prefix) /\ SubSeq(text, 1, Len(prefix)) = prefix
EndsWith(text, suffix) ==
    Len(text) >= Len(suffix)
    /\ SubSeq(text, Len(text) - Len(suffix) + 1, Len(text)) = suffix
\* str.strip()
Strip(text) ==
    LET black == {i \in 1..Len(text) : text[i] \notin Whitespace}
    IN  IF black = {} THEN <<>>
        ELSE SubSeq(text, CHOOSE i \in black : \A j \in black : i <= j,
                          CHOOSE i \in black : \A j \in black : i >= j)
_clean_json_response_text(text) ==
    LET a == IF StartsWith(text, <<BT, BT, BT, "j", "s", "o", "n">>)
             THEN SubSeq(text, 8, Len(text))
             ELSE IF StartsWith(text, <<BT, BT, BT>>) THEN SubSeq(text, 4, Len(text))
             ELSE text
        b == IF EndsWith(a, <<BT, BT, BT>>) THEN SubSeq(a, 1, Len(a) - 3) ELSE a
    IN  Strip(b)

\* sanitize_error_message on the characters of the text.  re.sub replaces
\* the leftmost match, then searches on after it; Match(text, i) is the
\* index of the last character of the match that begins at i, or 0.
Alnum == Lower \cup Upper \cup Digit
WordChars == Alnum \cup {"_"}
MIN_TOKEN_LEN == 40
LowerLetters == <<"a","b","c","d","e","f","g","h","i","j","k","l","m",
                  "n","o","p","q","r","s","t","u","v","w","x","y","z">>
UpperLetters == <<"A","B","C","D","E","F","G","H","I","J","K","L","M",
                  "N","O","P","Q","R","S","T","U","V","W","X","Y","Z">>
\* re.IGNORECASE: characters are compared in lower case.
ToLower(c) ==
    IF c \in Upper THEN LowerLetters[CHOOSE k \in 1..Len(UpperLetters) : UpperLetters[k] = c] ELSE c
\* The text from i on begins with the literal lit (lit in lower case when
\* fold is set).
LiteralAt(text, i, lit, fold) ==
    /\ i + Len(lit) - 1 <= Len(text)
    /\ \A k \in 1..Len(lit) :
          (IF fold THEN ToLower(text[i + k - 1]) ELSE text[i + k - 1]) = lit[k]
\* Index of the last character of the longest run of characters of class
\* that begins at i; i - 1 when there is none.
RunEnd(text, i, class) ==
    LET stops == {j \in i..Len(text) : text[j] \notin class}
    IN  IF stops = {} THEN Len(text)
        ELSE (CHOOSE j \in stops : \A k \in stops : j <= k) - 1
\* Same for a run of characters outside class.
RunEndNot(text, i, class) ==
    LET stops == {j \in i..Len(text) : text[j] \in class}
    IN  IF stops = {} THEN Len(text)
        ELSE (CHOOSE j \in stops : \A k \in stops : j <= k) - 1

\* r'AccountKey=[^;]+'
AccountKeyLiteral == <<"A", "c", "c", "o", "u", "n", "t", "K", "e", "y", "=">>
AccountKeyPattern(text, i) ==
    LET k == i + Len(AccountKeyLiteral)
        e == RunEndNot(text, k, {";"})
    IN  IF LiteralAt(text, i, AccountKeyLiteral, FALSE) /\ e >= k THEN e ELSE 0

\* r'api[_-]?key["\s:=]+[a-zA-Z0-9]+' with re.IGNORECASE
ApiKeySeparators == {"\"", ":", "="} \cup Whitespace
ApiKeyPattern(text, i) ==
    LET a == i + 3
        b == IF a <= Len(text) /\ text[a] \in {"_", "-"} THEN a + 1 ELSE a
        c == b + 3
        s == RunEnd(text, c, ApiKeySeparators)
        e == RunEnd(text, s + 1, Alnum)
    IN  IF /\ LiteralAt(text, i, <<"a", "p", "i">>, TRUE)
           /\ LiteralAt(text, b, <<"k", "e", "y">>, TRUE)
           /\ s >= c
           /\ e >= s + 1
        THEN e ELSE 0

\* r'\b[a-zA-Z0-9]{40,}\b'
LongTokenPattern(text, i) ==
    LET e == RunEnd(text, i, Alnum)
    IN  IF /\ e - i + 1 >= MIN_TOKEN_LEN
           /\ (i = 1 \/ text[i - 1] \notin WordChars)
           /\ (e = Len(text) \/ text[e + 1] \notin WordChars)
        THEN e ELSE 0

\* Where the match of one of the three patterns that starts at i ends.
PatternMatch(pattern, text, i) ==
    CASE pattern = "AccountKey" -> AccountKeyPattern(text, i)
      [] pattern = "api_key" -> ApiKeyPattern(text, i)
      [] pattern = "long_token" -> LongTokenPattern(text, i)

\* re.sub(pattern, repl, text): out[i] is the result for the text from
\* character i on.
ReSub(pattern, repl, text) ==
    LET n == Len(text)
        starts == {j \in 1..n : PatternMatch(pattern, text, j) > 0}
        out[i \in 1..(n + 1)] ==
            LET ahead == {j \in starts : j >= i}
                first == CHOOSE j \in ahead : \A k \in ahead : j <= k
            IN  IF ahead = {} THEN SubSeq(text, i, n)
                ELSE SubSeq(text, i, first - 1) \o repl
                         \o out[PatternMatch(pattern, text, first) + 1]
    IN  out[1]

Redacted == <<"*", "*", "*", "R", "E", "D", "A", "C", "T", "E", "D", "*", "*", "*">>
sanitize_error_message_text(error) ==
    LET a == ReSub("AccountKey", AccountKeyLiteral \o Redacted, error)
        b == ReSub("api_key", <<"a", "p", "i", "_", "k", "e", "y", "=">> \o Redacted, a)
    IN  ReSub("long_token", Redacted, b)

\* json.loads on a cleaned text: fails on anything but one JSON value.
JsonLoadsFails(r) == r.head # "" \/ r.tail # "" \/ r.body.kind # "value"

Get(d, k, default) == IF k \in DOMAIN d THEN d[k] ELSE default

\* extract_documents with the limit test off by one (>= for >).
extract_documents_limit_off_by_one(r) ==
    LET call == _call_gemini_with_pdf(r)
        result_text == _clean_json_response(r)
        documents == AsList(result_text.body)
        fail(e) == [exc |-> e, documents |-> <<>>]
    IN  IF IsExc(call) THEN fail(call)
        ELSE IF JsonLoadsFails(result_text)
        THEN fail(PyError("ValueError", <<"Invalid JSON response from Gemini">>))
        ELSE IF Len(documents) >= MAX_OUTPUT_FILES
        THEN fail(PyError("ValueError", <<"Too many documents returned by AI">>))
        ELSE [exc |-> NoExc, documents |-> documents]

\* DocumentSplitter.extract_documents
extract_documents(r) ==
    LET call == _call_gemini_with_pdf(r)
        result_text == _clean_json_response(r)
        documents == AsList(result_text.body)
        fail(e) == [exc |-> e, documents |-> <<>>]
    IN  IF IsExc(call) THEN fail(call)
        ELSE IF JsonLoadsFails(result_text)
        THEN fail(PyError("ValueError", <<"Invalid JSON response from Gemini">>))
        ELSE IF Len(documents) > MAX_OUTPUT_FILES
        THEN fail(PyError("ValueError", <<"Too many documents returned by AI">>))
        ELSE [exc |-> NoExc, documents |-> documents]

\* Entries of a rotation reply: a JSON object (its keys may be missing), or
\* a JSON number or string.
RotDict(d) == [t |-> "dict", d |-> d]
RotInt == [t |-> "int", d |-> [x |-> 0]]
RotStr == [t |-> "str", d |-> [x |-> 0]]
ValidRotations == {0, 90, 180, 270}

\* The loop body of extract_rotation_info without the assignment of 0.
CoerceRotation_untouched(p) == p

\* The loop body of extract_rotation_info on one entry: an object holding
\* a ROTATION outside 0/90/180/270 gets ROTATION 0; a string entry passes
\* untouched (the membership test is a substring test and is false).
CoerceRotation(p) ==
    IF p.t = "dict" /\ "ROTATION" \in DOMAIN p.d /\ p.d.ROTATION \notin ValidRotations
    THEN RotDict([p.d EXCEPT !.ROTATION = 0])
    ELSE p

\* DocumentSplitter.extract_rotation_info
extract_rotation_info(r) ==
    LET call == _call_gemini_with_pdf(r)
        result_text == _clean_json_response(r)
        rotation_data == AsList(result_text.body)
        fail(e) == [exc |-> e, data |-> <<>>]
    IN  IF IsExc(call) THEN fail(call)
        ELSE IF TextIsEmpty(result_text)
        THEN fail(PyError("ValueError", <<"Empty response from Gemini rotation extraction">>))
        ELSE IF JsonLoadsFails(result_text)
        THEN fail(PyError("ValueError", <<"Invalid JSON response from Gemini rotation extraction">>))
        ELSE IF \E i \in 1..Len(rotation_data) : rotation_data[i].t = "int"
        THEN fail(PyError("TypeError", <<"argument of type int is not iterable">>))
        ELSE [exc |-> NoExc,
              data |-> [i \in 1..Len(rotation_data) |-> CoerceRotation(rotation_data[i])]]

\* DocumentSplitter.extract_rotation_info_safe: a Result, never an exception.
extract_rotation_info_safe(r) ==
    LET x == extract_rotation_info(r)
    IN  IF IsExc(x.exc)
        THEN [status |-> "error", data |-> <<>>,
              error |-> <<"Failed to extract rotation info:", x.exc.type>> \o x.exc.msg]
        ELSE [status |-> "success", data |-> x.data, error |-> <<>>]

is_success(result) == result.status = "success"

\* ------------------------------------------------------------- splitting
\* Path(p).stem of a path held as its components.
Stem(path) == path[Len(path)]

Max(a, b) == IF a > b THEN a ELSE b

\* list(range(start, end + 1))
PyRange(start, end) == [i \in 1..Max(end - start + 1, 0) |-> start + i - 1]

\* combine_pdf_pages: the pages of the new document; when pypdf raises, the
\* except branch returns the bytes of the whole source file.
combine_pdf_pages(f, page_numbers, pypdf_raises) ==
    IF pypdf_raises THEN f.pages
    ELSE LET kept == SelectSeq(page_numbers, LAMBDA p : 0 <= p - 1 /\ p - 1 < Len(f.pages))
         IN  [i \in 1..Len(kept) |-> f.pages[kept[i]]]

\* extract_pdf_pages
extract_pdf_pages(f, start_page, end_page, pypdf_raises) ==
    combine_pdf_pages(f, PyRange(start_page, end_page), pypdf_raises)

\* _create_pages_info with range(start_page, end_page): the last page left out.
_create_pages_info_end_exclusive(start_page, end_page, rotation_map) ==
    LET page_nos == PyRange(start_page, end_page - 1)
    IN  [i \in 1..Len(page_nos) |->
            [PAGE_NO |-> page_nos[i], ROTATION |-> Get(rotation_map, page_nos[i], 0)]]

\* _create_pages_info
_create_pages_info(start_page, end_page, rotation_map) ==
    LET page_nos == PyRange(start_page, end_page)
    IN  [i \in 1..Len(page_nos) |->
            [PAGE_NO |-> page_nos[i], ROTATION |-> Get(rotation_map, page_nos[i], 0)]]

common_fields == {"DOC_TYPE", "DOC_TYPE_CONFIDENCE", "TOTAL_PAGES",
                  "START_PAGE_NO", "END_PAGE_NO", "PAGES_INFO"}

\* _extract_doc_fields
_extract_doc_fields(doc, common) == [k \in (DOMAIN doc) \ common |-> doc[k]]

\* _transform_document
_transform_document(doc, rotation_map, common) ==
    LET start_page == Get(doc, "START_PAGE_NO", 1)
        end_page == Get(doc, "END_PAGE_NO", 1)
    IN  [DOC_TYPE |-> Get(doc, "DOC_TYPE", "UNKNOWN"),
         DOC_TYPE_CONFIDENCE |-> Get(doc, "DOC_TYPE_CONFIDENCE", 0),
         TOTAL_PAGES |-> Get(doc, "TOTAL_PAGES", end_page - start_page + 1),
         START_PAGE_NO |-> start_page,
         END_PAGE_NO |-> end_page,
         PAGES_INFO |-> _create_pages_info(start_page, end_page, rotation_map),
         DOC_DATA |-> _extract_doc_fields(doc, common)]

\* {page['PAGE_NO']: page['ROTATION'] for page in rotation_data}: the
\* exception the first unusable entry raises, or NoExc.
RotationMapError(rotation_data) ==
    LET bad(p) == p.t # "dict" \/ "PAGE_NO" \notin DOMAIN p.d \/ "ROTATION" \notin DOMAIN p.d
        I == {i \in 1..Len(rotation_data) : bad(rotation_data[i])}
        first == CHOOSE i \in I : \A j \in I : i <= j
    IN  IF I = {} THEN NoExc
        ELSE IF rotation_data[first].t # "dict"
        THEN PyError("TypeError", <<"string indices must be integers">>)
        ELSE PyError("KeyError", <<"missing key">>)

\* The dict the comprehension builds: a later entry for a page wins.
RotationMap(rotation_data) ==
    LET n == Len(rotation_data)
        keys == {rotation_data[i].d.PAGE_NO : i \in 1..n}
        last(k) == CHOOSE i \in 1..n :
                      /\ rotation_data[i].d.PAGE_NO = k
                      /\ \A j \in 1..n : rotation_data[j].d.PAGE_NO = k => j <= i
    IN  [k \in keys |-> rotation_data[last(k)].d.ROTATION]

\* The name and content of the file the loop of split_and_save writes for
\* the document at 1-based position i.
SplitFile(f, base_filename, doc, i, pypdf_raises) ==
    LET doc_type == Get(doc, "DOC_TYPE", "UNKNOWN")
        start_page == Get(doc, "START_PAGE_NO", 1)
        end_page == Get(doc, "END_PAGE_NO", 1)
    IN  [name |-> <<base_filename, doc_type, i, "pages", start_page, end_page>>,
         pages |-> extract_pdf_pages(f, start_page, end_page, pypdf_raises)]

\* DocumentSplitter.split_and_save.  trace lists the stages entered, in
\* order; results is the ExtractionResult; files are the split files
\* written to the output directory.
split_and_save(f, pdf_path, base_filename, boundary, rotation, pypdf_raises) ==
    LET extracted == extract_documents(boundary)
        documents == extracted.documents
        all_rotations_result == extract_rotation_info_safe(rotation)
        map_error == IF is_success(all_rotations_result)
                     THEN RotationMapError(all_rotations_result.data)
                     ELSE NoExc
        all_rotations == IF is_success(all_rotations_result)
                         THEN RotationMap(all_rotations_result.data)
                         ELSE <<>>
        fail(e, trace) == [exc |-> e, trace |-> trace, files |-> <<>>,
                           results |-> [source_pdf |-> pdf_path, total_documents |-> 0,
                                        documents |-> <<>>]]
    IN  IF IsExc(extracted.exc) THEN fail(extracted.exc, <<"extract">>)
        ELSE IF IsExc(map_error) THEN fail(map_error, <<"extract", "rotation">>)
        ELSE [exc |-> NoExc,
              trace |-> <<"extract", "rotation", "split">>,
              files |-> [i \in 1..Len(documents) |->
                            SplitFile(f, base_filename, documents[i], i, pypdf_raises)],
              results |-> [source_pdf |-> pdf_path,
                           total_documents |-> Len(documents),
                           documents |-> [i \in 1..Len(documents) |->
                               _transform_document(documents[i], all_rotations,
                                                   common_fields)]]]

\* The severity process_pdf gives an exception escaping split_and_save.
process_pdf_severity(e) == IF e.type = "ValidationError" THEN PERMANENT ELSE TRANSIENT

\* process_pdf
process_pdf(f, pdf_path, boundary, rotation, pypdf_raises) ==
    LET r == split_and_save(f, pdf_path, Stem(pdf_path), boundary, rotation, pypdf_raises)
    IN  IF ~IsExc(r.exc) THEN r
        ELSE IF process_pdf_severity(r.exc) = PERMANENT
        THEN [r EXCEPT !.exc = ProcessingError(r.exc.msg, PERMANENT)]
        ELSE [r EXCEPT !.exc = ProcessingError(<<"Failed to process PDF:">>
                                   \o sanitize_error_message(r.exc.msg), TRANSIENT)]

\* The replies of the boundary-extraction model.
D(type, s, e) == [DOC_TYPE |-> type, START_PAGE_NO |-> s, END_PAGE_NO |-> e,
                  INVOICE_NO |-> "INV-1"]
Docs(n) == [i \in 1..n |-> D("INVOICE", 1, 1)]
BoundaryReplies ==
    {Reply("TimeoutError", "", JsonEmpty, ""),
     Reply(None, "", JsonEmpty, ""),
     Reply(None, "", JsonGarbage, ""),
     Reply(None, FenceJson, JsonList(<<D("INVOICE", 1, 2)>>), Fence),
     Reply(None, "", JsonObject(D("OBL", 1, 1)), ""),
     Reply(None, Fence, JsonList(<<D("INVOICE", 1, 1), D("OBL", 2, 3)>>), Fence),
     Reply(None, "", JsonList(<<>>), ""),
     Reply(None, "", JsonList(<<[DOC_TYPE |-> "HAWB"]>>), ""),
     Reply(None, "", JsonList(<<D("PACKING_LIST", 3, 5)>>), ""),
     Reply(None, "", JsonList(Docs(MAX_OUTPUT_FILES)), ""),
     Reply(None, "", JsonList(Docs(MAX_OUTPUT_FILES + 1)), "")}

\* The replies of the rotation model.
P(n, r) == RotDict([PAGE_NO |-> n, ROTATION |-> r])
RotationReplies ==
    {Reply("TimeoutError", "", JsonEmpty, ""),
     Reply(None, "", JsonEmpty, ""),
     Reply(None, Fence, JsonEmpty, Fence),
     Reply(None, "", JsonGarbage, ""),
     Reply(None, FenceJson, JsonList(<<P(1, 90), P(2, 0), P(3, 180)>>), Fence),
     Reply(None, "", JsonList(<<P(1, 45), P(2, 270)>>), ""),
     Reply(None, "", JsonObject(P(1, 270)), ""),
     Reply(None, "", JsonList(<<P(1, 90), RotDict([PAGE_NO |-> 2])>>), ""),
     Reply(None, "", JsonList(<<RotDict([ROTATION |-> 90])>>), ""),
     Reply(None, "", JsonList(<<RotInt>>), ""),
     Reply(None, "", JsonList(<<RotStr>>), "")}

\* ------------------------------------------------------ packaging, upload
\* create_results_zip: the entries of the archive.
create_results_zip(results_data, source_file, zip_filename) ==
    [name |-> zip_filename, exists |-> TRUE,
     entries |-> <<[arcname |-> <<"extraction_results.json">>, content |-> results_data]>>
                 \o (IF source_file.exists
                     THEN <<[arcname |-> <<Stem(results_data.source_pdf), ".pdf">>,
                             content |-> source_file.pages]>>
                     ELSE <<>>)]
NoZip == [name |-> <<>>, exists |-> FALSE, entries |-> <<>>]

\* package_results: io_error is the OSError text zipfile raises, or <<>>.
package_results(results_data, source_file, correlation_key, io_error) ==
    IF io_error # <<>>
    THEN [exc |-> ProcessingError(<<"Failed to create results ZIP:">>
                                   \o sanitize_error_message(io_error), TRANSIENT),
          zip |-> NoZip]
    ELSE [exc |-> NoExc,
          zip |-> create_results_zip(results_data, source_file,
                                     <<correlation_key, "_results.zip">>)]

\* upload_results
upload_results(zip, correlation_key, container, attempts) ==
    LET u == upload_file(zip, attempts)
    IN  IF IsExc(u)
        THEN [exc |-> ProcessingError(<<"Failed to upload results:">>
                                       \o sanitize_error_message(u.msg), TRANSIENT),
              zip_url |-> <<>>]
        ELSE [exc |-> NoExc, zip_url |-> <<container, correlation_key, zip.name>>]

\* ------------------------------------------------------------- outcomes
\* The message send_success_result sets on the output binding.
send_success_result(correlation_key, results_url) ==
    [correlationKey |-> correlation_key, status |-> "success",
     resultsBlobUrl |-> results_url]

\* The message send_error_result sets on the output binding.
send_error_result(correlation_key, error_message) ==
    [correlationKey |-> correlation_key, status |-> "failure",
     errorMessage |-> sanitize_error_message(error_message)]

\* The except clauses with a raise added to the PERMANENT branches.
process_pdf_file_except_permanent_raises(e) ==
    CASE e.type = "ConfigurationError" -> [message |-> e.msg, reraise |-> TRUE]
      [] e.type = "ValidationError" -> [message |-> e.msg, reraise |-> TRUE]
      [] e.type = "ProcessingError" -> [message |-> e.msg, reraise |-> TRUE]
      [] OTHER -> [message |-> sanitize_error_message(e.msg), reraise |-> TRUE]

\* The except clauses with the raise of the TRANSIENT branch dropped.
process_pdf_file_except_transient_swallowed(e) ==
    CASE e.type = "ConfigurationError" -> [message |-> e.msg, reraise |-> TRUE]
      [] e.type = "ValidationError" -> [message |-> e.msg, reraise |-> FALSE]
      [] e.type = "ProcessingError" ->
            IF e.severity = CRITICAL THEN [message |-> e.msg, reraise |-> TRUE]
            ELSE [message |-> e.msg, reraise |-> FALSE]
      [] OTHER -> [message |-> sanitize_error_message(e.msg), reraise |-> TRUE]

\* The except clauses with the raise of the last clause dropped.
process_pdf_file_except_other_swallowed(e) ==
    CASE e.type = "ConfigurationError" -> [message |-> e.msg, reraise |-> TRUE]
      [] e.type = "ValidationError" -> [message |-> e.msg, reraise |-> FALSE]
      [] e.type = "ProcessingError" ->
            IF e.severity = CRITICAL THEN [message |-> e.msg, reraise |-> TRUE]
            ELSE IF e.severity = TRANSIENT THEN [message |-> e.msg, reraise |-> TRUE]
            ELSE [message |-> e.msg, reraise |-> FALSE]
      [] OTHER -> [message |-> sanitize_error_message(e.msg), reraise |-> FALSE]

\* The except clauses of process_pdf_file: the text handed to
\* send_error_result and whether the clause ends in raise.
process_pdf_file_except(e) ==
    CASE e.type = "ConfigurationError" -> [message |-> e.msg, reraise |-> TRUE]
      [] e.type = "ValidationError" -> [message |-> e.msg, reraise |-> FALSE]
      [] e.type = "ProcessingError" ->
            IF e.severity = CRITICAL THEN [message |-> e.msg, reraise |-> TRUE]
            ELSE IF e.severity = TRANSIENT THEN [message |-> e.msg, reraise |-> TRUE]
            ELSE [message |-> e.msg, reraise |-> FALSE]
      [] OTHER -> [message |-> sanitize_error_message(e.msg), reraise |-> TRUE]

\* ------------------------------------------------- lazily built handles
\* get_config: the exception raised, or NoExc, and the new _app_config.
get_config(app_config, environment) ==
    IF app_config # None THEN [exc |-> NoExc, _app_config |-> app_config]
    ELSE IF environment.config_ok THEN [exc |-> NoExc, _app_config |-> "AppConfig"]
    ELSE [exc |-> ConfigurationError(<<"Failed to load application configuration:",
                                       "GEMINI_API_KEY environment variable not set">>),
          _app_config |-> None]

\* get_storage_client: the handle is assigned to the global before
\* get_service_properties() verifies it.  net is the set of network calls
\* made.
get_storage_client(storage_client, app_config, environment, properties_ok) ==
    LET cfg == get_config(app_config, environment)
        ret(e, c, net) == [exc |-> e, _storage_client |-> c,
                           _app_config |-> cfg._app_config, net |-> net]
    IN  IF storage_client # None THEN ret(NoExc, storage_client, {})
        ELSE IF IsExc(cfg.exc) THEN ret(cfg.exc, None, {})
        ELSE IF environment.storage = "bad_account"
        THEN ret(ConfigurationError(<<"Failed to initialize storage client:",
                                      "invalid account url">>), None, {})
        ELSE IF ~properties_ok
        THEN ret(ConfigurationError(<<"Failed to initialize storage client:",
                                      "AuthenticationFailed", SecretAccountKey>>),
                 "AzureStorageClient", {"storage:get_service_properties"})
        ELSE ret(NoExc, "AzureStorageClient", {"storage:get_service_properties"})

\* get_document_splitter
get_document_splitter(document_splitter, app_config, environment) ==
    LET cfg == get_config(app_config, environment)
        ret(e, d) == [exc |-> e, _document_splitter |-> d, _app_config |-> cfg._app_config]
    IN  IF document_splitter # None THEN ret(NoExc, document_splitter)
        ELSE IF IsExc(cfg.exc) THEN ret(cfg.exc, None)
        ELSE IF ~environment.gemini_ok
        THEN ret(ConfigurationError(<<"Failed to initialize document splitter:",
                                      SecretApiKey>>), None)
        ELSE ret(NoExc, "DocumentSplitter")

\* ------------------------------------------------------------------ state
VARIABLES
    env,                 \* the deployment: configuration and credentials
    world,               \* which behaviours of the collaborators are explored
    _app_config,         \* module globals of function_app.py
    _storage_client,
    _document_splitter,
    msg,                 \* the body of the WorkItem's queue message
    dequeueCount,        \* deliveries of the message so far
    pc,                  \* position of the host / of process_pdf_file
    temp_dir,            \* locals of process_pdf_file
    correlation_key,
    validated_request,
    pdf_path,
    pdf_file,
    results,
    output_files,
    zip_path,
    zip_url,
    exc,                 \* the exception being handled, and whether it
    raised,              \* leaves process_pdf_file
    fs,                  \* temporary directories that exist on disk
    outputQueue,         \* values set on the output binding, this invocation
    published,           \* the results queue
    steps,               \* history: pipeline steps started, this invocation
    succeeded,           \* history: steps that returned normally
    netcalls,            \* history: network calls made, this invocation
    cleaned,             \* history: directories cleanup_temp_dir was run on
    cleanup_warnings,    \* history: directories whose removal failed (logged)
    rotation_reply,      \* history: the reply the rotation model gave
    boundary_reply,      \* history: the reply the boundary model gave
    manifests,           \* history: the manifests packaged for the WorkItem
    applied,             \* a function applied on its own: its name,
    arg,                 \* its arguments
    ret,                 \* and what it returned or raised
    shared,              \* the module globals as concurrent invocations see them
    constructions,       \* history: constructor calls made for each global
    thread               \* concurrent invocations: position and locals

\* The application of one function outside an invocation.
aside == <<applied, arg, ret>>
\* Invocations running on several threads of one worker process.
concurrent == <<shared, constructions, thread>>

\* The invocation followed step by step, the disk apart.
invocation == <<env, world, _app_config, _storage_client, _document_splitter, msg, dequeueCount,
                pc, temp_dir, correlation_key, validated_request, pdf_path, pdf_file,
                results, output_files, zip_path, zip_url, exc, raised, outputQueue,
                published, steps, succeeded, netcalls, cleaned, cleanup_warnings,
                rotation_reply, boundary_reply, manifests>>

pipeline == <<invocation, fs>>

vars == <<pipeline, aside, concurrent>>

globals == <<_app_config, _storage_client, _document_splitter>>
locals == <<temp_dir, correlation_key, validated_request, pdf_path, pdf_file,
            results, output_files, zip_path, zip_url>>
history == <<steps, succeeded, netcalls>>

\* The three lazily built globals; an instance is known by its class and
\* by the number of the constructor call that made it.
Handles == {"_app_config", "_storage_client", "_document_splitter"}
Threads == 1..MaxThreads
NoInstance == [cls |-> None, id |-> 0]
Instance(cls, id) == [cls |-> cls, id |-> id]
ClassOf(h) ==
    CASE h = "_app_config" -> "AppConfig"
      [] h = "_storage_client" -> "AzureStorageClient"
      [] h = "_document_splitter" -> "DocumentSplitter"
Idle == [pc |-> "idle", h |-> "_storage_client", config |-> NoInstance,
         storage_client |-> NoInstance, document_splitter |-> NoInstance,
         temp_dir |-> <<>>, obj |-> NoInstance, instance |-> NoInstance]

Environments == [config_ok : BOOLEAN,
                 storage : {"ok", "bad_key", "bad_account"},
                 gemini_ok : BOOLEAN]

\* Paths are sequences of components; NoDir is the None of temp_dir.
NoDir == <<>>
TokenHex == 1..MaxDirNames
DirNames == {<<"docproc", t>> : t \in TokenHex}
UNKNOWN == <<"U", "N", "K", "N", "O", "W", "N">>
NoRequest == [correlation_key |-> <<>>, pdf_blob_url |-> JAbsent]
NoResults == [source_pdf |-> <<>>, total_documents |-> 0, documents |-> <<>>]
ResultsContainer == "results"
\* rotation_reply before extract_rotation_info_safe has been called.
NoReply == [raises |-> "NotCalled", head |-> "", body |-> JsonEmpty, tail |-> ""]

\* The collaborators (blob store, models, file system) are explored in two
\* worlds: every behaviour listed above over a single delivery, and a core
\* of them over up to MaxDeliveries deliveries of the message.
AllOk == [i \in 1..MAX_RETRIES |-> "ok"]
AllTimeout == [i \in 1..MAX_RETRIES |-> "ServiceRequestError"]
DeliveryLimit == IF world = "full" THEN 1 ELSE MaxDeliveries
AttemptsOf(w) == IF w = "full" THEN Attempts ELSE {AllOk, AllTimeout}
BlobsOf(w) == IF w = "full" THEN Blobs ELSE {PdfFile(40, TRUE, 3), PdfFile(0, FALSE, 0)}
BoundaryRepliesOf(w) ==
    IF w = "full" THEN BoundaryReplies
    ELSE {Reply(None, FenceJson, JsonList(<<D("INVOICE", 1, 2)>>), Fence),
          Reply(None, "", JsonList(Docs(MAX_OUTPUT_FILES + 1)), "")}
RotationRepliesOf(w) ==
    IF w = "full" THEN RotationReplies
    ELSE {Reply(None, FenceJson, JsonList(<<P(1, 90), P(2, 0), P(3, 180)>>), Fence),
          Reply(None, "", JsonList(<<P(1, 90), RotDict([PAGE_NO |-> 2])>>), "")}
PypdfFaultsOf(w) == IF w = "full" THEN BOOLEAN ELSE {FALSE}
UnexpectedTexts == {<<"unexpected failure">>, <<"unexpected failure", SecretToken40>>}
UnexpectedTextsOf(w) ==
    IF w = "full" THEN UnexpectedTexts ELSE {<<"unexpected failure", SecretToken40>>}

Init ==
    /\ env \in Environments
    /\ world \in {"full", "core"}
    /\ msg \in Messages
    /\ _app_config = None
    /\ _storage_client = None
    /\ _document_splitter = None
    /\ dequeueCount = 0
    /\ pc = "import"
    /\ temp_dir = NoDir
    /\ correlation_key = UNKNOWN
    /\ validated_request = NoRequest
    /\ pdf_path = <<>>
    /\ pdf_file = NoFile
    /\ results = NoResults
    /\ output_files = <<>>
    /\ zip_path = NoZip
    /\ zip_url = <<>>
    /\ exc = NoExc
    /\ raised = FALSE
    /\ fs = {}
    /\ outputQueue = <<>>
    /\ published = <<>>
    /\ steps = <<>>
    /\ succeeded = {}
    /\ netcalls = {}
    /\ cleaned = {}
    /\ cleanup_warnings = {}
    /\ rotation_reply = NoReply
    /\ boundary_reply = NoReply
    /\ manifests = {}
    /\ applied = None
    /\ arg = NoObject
    /\ ret = NoObject
    /\ shared = [h \in Handles |-> NoInstance]
    /\ constructions = [h \in Handles |-> 0]
    /\ thread = [t \in Threads |-> Idle]

\* config = get_config() at module level: the function is registered only
\* when the configuration loads.
ModuleImport ==
    /\ pc = "import"
    /\ LET c == get_config(_app_config, env)
       IN  /\ _app_config' = c._app_config
           /\ pc' = IF IsExc(c.exc) THEN "import_failed" ELSE "queued"
    /\ UNCHANGED <<aside, concurrent, env, world, _storage_client, _document_splitter, msg, dequeueCount, locals,
                   exc, raised, fs, outputQueue, published, history, cleaned, cleanup_warnings, rotation_reply, boundary_reply, manifests>>

\* The queue trigger: the host hands the message to process_pdf_file.
HostDeliver ==
    /\ pc = "queued"
    /\ dequeueCount < DeliveryLimit
    /\ dequeueCount' = dequeueCount + 1
    /\ pc' = "get_storage_client"
    /\ temp_dir' = NoDir
    /\ correlation_key' = UNKNOWN
    /\ validated_request' = NoRequest
    /\ pdf_path' = <<>>
    /\ pdf_file' = NoFile
    /\ results' = NoResults
    /\ output_files' = <<>>
    /\ zip_path' = NoZip
    /\ zip_url' = <<>>
    /\ exc' = NoExc
    /\ raised' = FALSE
    /\ outputQueue' = <<>>
    /\ steps' = <<>>
    /\ succeeded' = {}
    /\ netcalls' = {}
    /\ cleaned' = {}
    /\ cleanup_warnings' = {}
    /\ rotation_reply' = NoReply
    /\ boundary_reply' = NoReply
    /\ UNCHANGED <<aside, concurrent, env, world, globals, msg, fs, published, manifests>>

\* An exception leaves the try body: control goes to the except clauses.
Throw(e) == exc' = e /\ pc' = "except"

\* storage_client = get_storage_client()
GetStorageClient ==
    /\ pc = "get_storage_client"
    /\ \E properties_ok \in BOOLEAN :
          /\ properties_ok => env.storage = "ok"
          /\ LET r == get_storage_client(_storage_client, _app_config, env, properties_ok)
             IN  /\ _storage_client' = r._storage_client
                 /\ _app_config' = r._app_config
                 /\ netcalls' = netcalls \cup r.net
                 /\ IF IsExc(r.exc) THEN Throw(r.exc)
                    ELSE exc' = exc /\ pc' = "get_document_splitter"
    /\ UNCHANGED <<aside, concurrent, env, world, _document_splitter, msg, dequeueCount, locals, raised, fs,
                   outputQueue, published, steps, succeeded, cleaned, cleanup_warnings, rotation_reply, boundary_reply, manifests>>

\* document_splitter = get_document_splitter()
GetDocumentSplitter ==
    /\ pc = "get_document_splitter"
    /\ LET r == get_document_splitter(_document_splitter, _app_config, env)
       IN  /\ _document_splitter' = r._document_splitter
           /\ _app_config' = r._app_config
           /\ IF IsExc(r.exc) THEN Throw(r.exc)
              ELSE exc' = exc /\ pc' = "validate"
    /\ UNCHANGED <<aside, concurrent, env, world, _storage_client, msg, dequeueCount, locals, raised, fs,
                   outputQueue, published, history, cleaned, cleanup_warnings, rotation_reply, boundary_reply, manifests>>

\* validated_request = ValidatedRequest.from_queue_message(...)
ValidateRequest ==
    /\ pc = "validate"
    /\ LET r == from_queue_message(msg, PyStr(InputContainer))
       IN  /\ steps' = Append(steps, "validate")
           /\ IF IsExc(r.exc)
              THEN /\ Throw(r.exc)
                   /\ UNCHANGED <<validated_request, correlation_key, succeeded>>
              ELSE /\ validated_request' = [correlation_key |-> r.correlation_key.v,
                                            pdf_blob_url |-> r.pdf_blob_url]
                   /\ correlation_key' = r.correlation_key.v
                   /\ succeeded' = succeeded \cup {"validate"}
                   /\ exc' = exc
                   /\ pc' = "create_temp_dir"
    /\ UNCHANGED <<aside, concurrent, env, world, globals, msg, dequeueCount, temp_dir, pdf_path, pdf_file,
                   results, output_files, zip_path, zip_url, raised, fs, outputQueue,
                   published, netcalls, cleaned, cleanup_warnings, rotation_reply, boundary_reply, manifests>>

\* create_secure_temp_dir with mkdir(exist_ok=True).
create_secure_temp_dir_exist_ok(name, existing, os_error) ==
    IF os_error
    THEN [exc |-> ProcessingError(<<"Failed to create temporary directory:">>, TRANSIENT),
          temp_dir |-> <<>>, fs |-> existing]
    ELSE [exc |-> NoExc, temp_dir |-> name, fs |-> existing \cup {name}]

\* create_secure_temp_dir: mkdir(exist_ok=False) on a random name.
create_secure_temp_dir(name, existing, os_error) ==
    IF os_error \/ name \in existing
    THEN [exc |-> ProcessingError(<<"Failed to create temporary directory:">>, TRANSIENT),
          temp_dir |-> <<>>, fs |-> existing]
    ELSE [exc |-> NoExc, temp_dir |-> name, fs |-> existing \cup {name}]

CreateSecureTempDir ==
    /\ pc = "create_temp_dir"
    /\ \E name \in DirNames, os_error \in BOOLEAN :
          LET r == create_secure_temp_dir(name, fs, os_error)
          IN  /\ temp_dir' = r.temp_dir
              /\ fs' = r.fs
              /\ IF IsExc(r.exc) THEN Throw(r.exc)
                 ELSE exc' = exc /\ pc' = "download"
    /\ UNCHANGED <<aside, concurrent, env, world, globals, msg, dequeueCount, correlation_key, validated_request,
                   pdf_path, pdf_file, results, output_files, zip_path, zip_url, raised,
                   outputQueue, published, history, cleaned, cleanup_warnings, rotation_reply, boundary_reply, manifests>>

\* pdf_path = download_pdf(storage_client, url, temp_dir / token_hex(8).pdf)
DownloadPdf ==
    /\ pc = "download"
    /\ \E attempts \in AttemptsOf(world), blob \in BlobsOf(world), token \in TokenHex :
          LET r == download_pdf(attempts, blob)
          IN  /\ netcalls' = netcalls \cup {"storage:download_blob"}
              /\ steps' = steps \o (IF r.validated THEN <<"download", "validate_pdf">>
                                    ELSE <<"download">>)
              /\ succeeded' = succeeded
                                \cup (IF r.validated THEN {"download"} ELSE {})
                                \cup (IF ~IsExc(r.exc) THEN {"validate_pdf"} ELSE {})
              /\ pdf_file' = r.file
              /\ pdf_path' = Append(temp_dir, token)
              /\ IF IsExc(r.exc) THEN Throw(r.exc)
                 ELSE exc' = exc /\ pc' = "process"
    /\ UNCHANGED <<aside, concurrent, env, world, globals, msg, dequeueCount, temp_dir, correlation_key,
                   validated_request, results, output_files, zip_path, zip_url, raised,
                   fs, outputQueue, published, cleaned, cleanup_warnings, rotation_reply, boundary_reply, manifests>>

\* An exception of no pipeline class raised by a call the try body makes
\* outside the wrapped helpers: msg.get_body() or secrets.token_hex(8).
UnexpectedError ==
    /\ pc \in {"validate", "download"}
    /\ \E text \in UnexpectedTextsOf(world) : Throw(PyError("RuntimeError", text))
    /\ UNCHANGED <<aside, concurrent, env, world, globals, msg, dequeueCount, locals, raised, fs, outputQueue,
                   published, history, cleaned, cleanup_warnings, rotation_reply, boundary_reply, manifests>>

\* results = process_pdf(document_splitter, pdf_path, temp_dir / "output")
ProcessPdf ==
    /\ pc = "process"
    /\ \E boundary \in BoundaryRepliesOf(world), rotation \in RotationRepliesOf(world),
          pypdf_raises \in PypdfFaultsOf(world) :
          \E r \in {process_pdf(pdf_file, pdf_path, boundary, rotation, pypdf_raises)} :
          LET n == Len(r.trace)
          IN  /\ netcalls' = netcalls
                               \cup {"model:extract_documents"}
                               \cup (IF n >= 2 THEN {"model:extract_rotation_info"} ELSE {})
              /\ steps' = steps \o r.trace
              /\ succeeded' = succeeded \cup
                                {r.trace[i] : i \in 1..(IF IsExc(r.exc) THEN n - 1 ELSE n)}
              /\ rotation_reply' = IF n >= 2 THEN rotation ELSE NoReply
              /\ boundary_reply' = boundary
              /\ results' = r.results
              /\ output_files' = r.files
              /\ IF IsExc(r.exc) THEN Throw(r.exc)
                 ELSE exc' = exc /\ pc' = "package"
    /\ UNCHANGED <<aside, concurrent, env, world, globals, msg, dequeueCount, temp_dir, correlation_key,
                   validated_request, pdf_path, pdf_file, zip_path, zip_url, raised, fs,
                   outputQueue, published, cleaned, cleanup_warnings, manifests>>

\* zip_path = package_results(temp_dir / "output", results, correlation_key)
ZipErrors == {<<>>, <<"No space left on device">>}

PackageResults ==
    /\ pc = "package"
    /\ \E io_error \in ZipErrors :
          LET r == package_results(results, pdf_file, correlation_key, io_error)
          IN  /\ steps' = Append(steps, "package")
              /\ zip_path' = r.zip
              /\ manifests' = IF IsExc(r.exc) THEN manifests
                              ELSE manifests \cup {[pdf_file |-> pdf_file,
                                                    boundary |-> boundary_reply,
                                                    rotation |-> rotation_reply,
                                                    manifest |-> r.zip.entries[1].content]}
              /\ IF IsExc(r.exc) THEN Throw(r.exc) /\ succeeded' = succeeded
                 ELSE exc' = exc /\ pc' = "upload" /\ succeeded' = succeeded \cup {"package"}
    /\ UNCHANGED <<aside, concurrent, env, world, globals, msg, dequeueCount, temp_dir, correlation_key,
                   validated_request, pdf_path, pdf_file, results, output_files, zip_url,
                   raised, fs, outputQueue, published, netcalls, cleaned, cleanup_warnings, rotation_reply, boundary_reply>>

\* zip_url = upload_results(storage_client, zip_path, correlation_key, container)
UploadResults ==
    /\ pc = "upload"
    /\ \E attempts \in AttemptsOf(world) :
          /\ (\E i \in 1..MAX_RETRIES : attempts[i] = "ok") => env.storage = "ok"
          /\ LET r == upload_results(zip_path, correlation_key, ResultsContainer, attempts)
             IN  /\ steps' = Append(steps, "upload")
                 /\ netcalls' = netcalls \cup {"storage:upload_blob"}
                 /\ zip_url' = r.zip_url
                 /\ IF IsExc(r.exc) THEN Throw(r.exc) /\ succeeded' = succeeded
                    ELSE exc' = exc /\ pc' = "notify" /\ succeeded' = succeeded \cup {"upload"}
    /\ UNCHANGED <<aside, concurrent, env, world, globals, msg, dequeueCount, temp_dir, correlation_key,
                   validated_request, pdf_path, pdf_file, results, output_files, zip_path,
                   raised, fs, outputQueue, published, cleaned, cleanup_warnings, rotation_reply, boundary_reply, manifests>>

\* send_success_result raising after it has set the binding.
SendSuccess_then_raises ==
    /\ pc = "notify"
    /\ LET m == send_success_result(correlation_key, zip_url)
       IN  /\ outputQueue' = Append(outputQueue, m)
           /\ published' = Append(published, m)
    /\ steps' = Append(steps, "notify")
    /\ succeeded' = succeeded
    /\ Throw(PyError("RuntimeError", <<"unexpected failure">>))
    /\ UNCHANGED <<aside, concurrent, env, world, globals, msg, dequeueCount, locals, raised, fs, netcalls,
                   cleaned, cleanup_warnings, rotation_reply, boundary_reply, manifests>>

\* send_success_result(outputQueue, correlation_key, zip_url)
SendSuccess ==
    /\ pc = "notify"
    /\ LET m == send_success_result(correlation_key, zip_url)
       IN  /\ outputQueue' = Append(outputQueue, m)
           /\ published' = Append(published, m)
    /\ steps' = Append(steps, "notify")
    /\ succeeded' = succeeded \cup {"notify"}
    /\ pc' = "finally"
    /\ UNCHANGED <<aside, concurrent, env, world, globals, msg, dequeueCount, locals, exc, raised, fs, netcalls,
                   cleaned, cleanup_warnings, rotation_reply, boundary_reply, manifests>>

\* The except clauses with send_error_result missing where they raise.
HandleException_raise_without_notify ==
    /\ pc = "except"
    /\ LET h == process_pdf_file_except(exc)
           m == send_error_result(correlation_key, h.message)
       IN  /\ outputQueue' = IF h.reraise THEN outputQueue ELSE Append(outputQueue, m)
           /\ published' = IF h.reraise THEN published ELSE Append(published, m)
           /\ raised' = h.reraise
    /\ pc' = "finally"
    /\ UNCHANGED <<aside, concurrent, env, world, globals, msg, dequeueCount, locals, exc, fs, history,
                   cleaned, cleanup_warnings, rotation_reply, boundary_reply, manifests>>

\* The except clauses: send_error_result, then raise or fall through.
HandleException ==
    /\ pc = "except"
    /\ LET h == process_pdf_file_except(exc)
           m == send_error_result(correlation_key, h.message)
       IN  /\ outputQueue' = Append(outputQueue, m)
           /\ published' = Append(published, m)
           /\ raised' = h.reraise
    /\ pc' = "finally"
    /\ UNCHANGED <<aside, concurrent, env, world, globals, msg, dequeueCount, locals, exc, fs, history,
                   cleaned, cleanup_warnings, rotation_reply, boundary_reply, manifests>>

\* cleanup_temp_dir without its call of shutil.rmtree.
cleanup_temp_dir_keeps(dir, existing, rmtree_raises) == existing

\* cleanup_temp_dir: the directories left on disk; an exception of rmtree
\* is logged and swallowed.
cleanup_temp_dir(dir, existing, rmtree_raises) ==
    IF dir # <<>> /\ dir \in existing /\ ~rmtree_raises THEN existing \ {dir} ELSE existing

\* finally: if temp_dir: cleanup_temp_dir(temp_dir)
Finally ==
    /\ pc = "finally"
    /\ IF temp_dir # NoDir
       THEN \E rmtree_raises \in BOOLEAN :
               /\ fs' = cleanup_temp_dir(temp_dir, fs, rmtree_raises)
               /\ cleaned' = cleaned \cup {temp_dir}
               /\ cleanup_warnings' =
                     IF temp_dir \in fs /\ rmtree_raises
                     THEN cleanup_warnings \cup {temp_dir} ELSE cleanup_warnings
       ELSE UNCHANGED <<fs, cleaned, cleanup_warnings>>
    /\ pc' = "exit"
    /\ UNCHANGED <<aside, concurrent, env, world, globals, msg, dequeueCount, locals, exc, raised, outputQueue,
                   published, history, rotation_reply, boundary_reply, manifests>>

\* The invocation returns to the host: a raised exception makes the host
\* put the message back (or, after MaxDeliveries, on the poison queue); a
\* normal return deletes it.
HostComplete ==
    /\ pc = "exit"
    /\ pc' = IF ~raised THEN "done"
             ELSE IF dequeueCount < DeliveryLimit THEN "queued" ELSE "poison"
    /\ UNCHANGED <<aside, concurrent, env, world, globals, msg, dequeueCount, locals, exc, raised, fs, outputQueue,
                   published, history, cleaned, cleanup_warnings, rotation_reply, boundary_reply, manifests>>

\* storage_client.download_blob, client.models.generate_content and
\* blob_client.upload_blob are called without a timeout
\* (DocumentSplitter.timeout_seconds is stored and never passed on): when
\* the peer never answers, the call does not return and the invocation
\* stays where it is.
ExternalCallNeverReturns ==
    /\ pc \in {"download", "process", "upload"}
    /\ pc' = "blocked"
    /\ UNCHANGED <<aside, concurrent, env, world, globals, msg, dequeueCount, locals, exc,
                   raised, fs, outputQueue, published, history, cleaned, cleanup_warnings,
                   rotation_reply, boundary_reply, manifests>>

Next ==
    \/ ModuleImport
    \/ HostDeliver
    \/ GetStorageClient
    \/ GetDocumentSplitter
    \/ ValidateRequest
    \/ UnexpectedError
    \/ CreateSecureTempDir
    \/ DownloadPdf
    \/ ProcessPdf
    \/ PackageResults
    \/ UploadResults
    \/ SendSuccess
    \/ HandleException
    \/ Finally
    \/ HostComplete
    \/ ExternalCallNeverReturns

Spec == Init /\ [][Next]_vars

\* The worker keeps executing an invocation it has started, and the host
\* keeps delivering queued messages.
SpecLive == Spec /\ WF_vars(Next)

\* ------------------------------------------- functions applied on their own
\* The validators and helpers are also called directly (by the unit tests
\* and by other callers than process_pdf_file).  SpecPure applies each of
\* them to arguments drawn from bounded sets, one application a behaviour;
\* the pipeline stays at rest.
InitPure ==
    /\ Init
    /\ env = [config_ok |-> TRUE, storage |-> "ok", gemini_ok |-> TRUE]
    /\ world = "core"
    /\ msg = M_valid

\* Characters of the keys tried: one of each class of the pattern, the
\* path characters and two kinds of whitespace.
KeyChars == {"a", "Z", "7", "-", "_", "/", "\\", ".", " ", "\n"}
Repeat(c, n) == [i \in 1..n |-> c]
Keys ==
    {JKey(chars) : chars \in UNION {[1..k -> KeyChars] : k \in 0..MaxKeyChars}}
    \cup {JKey(Repeat("a", MAX_KEY_LEN)), JKey(Repeat("a", MAX_KEY_LEN + 1)),
          JKey(Repeat("a", MAX_KEY_LEN - 1) \o <<"\n">>),
          JKey(Repeat("a", MAX_KEY_LEN) \o <<"\n">>), JNull}

Apply_validate_correlation_key ==
    /\ applied = None
    /\ \E key \in Keys :
         /\ applied' = "validate_correlation_key"
         /\ arg' = key
         /\ ret' = validate_correlation_key(key)
    /\ UNCHANGED <<pipeline, concurrent>>

\* URLs tried: each way a URL can fail, in every combination, with the
\* allowed containers given as a single name or as a list of names.
Urls ==
    {JUrl(len, scheme, hostname, path) :
        len \in {46, MAX_URL_LEN, MAX_URL_LEN + 1},
        scheme \in {"https", "http"},
        hostname \in {GoodHost, <<"store", "example", "com">>,
                      <<"myblobcore", "windows", "net">>, <<>>},
        path \in {<<InputContainer, "doc.pdf">>, <<"trusted-uploads", "docs", "file.pdf">>,
                  <<"secrets", "doc.pdf">>, <<InputContainer>>, <<>>}}
    \cup {JUrl(0, "", <<>>, <<>>)}
AllowedContainers ==
    {PyStr(InputContainer), PyList(<<InputContainer>>),
     PyList(<<InputContainer, "trusted-uploads">>)}

Apply_validate_blob_url ==
    /\ applied = None
    /\ \E url \in Urls, allowed_container \in AllowedContainers :
         /\ applied' = "validate_blob_url"
         /\ arg' = [url |-> url, allowed_container |-> allowed_container]
         /\ ret' = validate_blob_url(url, allowed_container)
    /\ UNCHANGED <<pipeline, concurrent>>

\* Message bodies tried: undecodable bytes, invalid JSON, a JSON value of
\* each top-level type, and objects holding every combination of absent,
\* null, falsy, non-string and string values under the four names.
KeyValues == {JAbsent, JNull, JInt(0), JInt(7), JKey(<<>>), GoodKey, OtherKey}
UrlValues == {JAbsent, JNull, JInt(0), JInt(7), JUrl(0, "", <<>>, <<>>), GoodUrl}
Bodies ==
    {Body(TRUE, TRUE, "dict", ck, ck_snake, url, url_snake) :
        ck \in KeyValues, ck_snake \in KeyValues, url \in UrlValues, url_snake \in UrlValues}
    \cup {Body(TRUE, TRUE, top, JAbsent, JAbsent, JAbsent, JAbsent) :
             top \in {"list", "str", "int", "NoneType"}}
    \cup {M_bad_utf8, M_bad_json}

Apply_parse_queue_message ==
    /\ applied = None
    /\ \E message_body \in Bodies :
         /\ applied' = "parse_queue_message"
         /\ arg' = message_body
         /\ ret' = parse_queue_message(message_body)
    /\ UNCHANGED <<pipeline, concurrent>>

\* Boundary replies tried: the replies of the pipeline and arrays of every
\* length up to two past the limit, their descriptors all different.
Numbered(n) == [i \in 1..n |-> D("INVOICE", i, i)]
SizedReplies ==
    BoundaryReplies
    \cup {Reply(None, "", JsonList(Numbered(n)), "") : n \in 0..(MAX_OUTPUT_FILES + 2)}
    \cup {Reply(None, FenceJson, JsonList(Numbered(n)), Fence) :
             n \in {MAX_OUTPUT_FILES, MAX_OUTPUT_FILES + 1}}

Apply_extract_documents ==
    /\ applied = None
    /\ \E r \in SizedReplies :
         /\ applied' = "extract_documents"
         /\ arg' = r
         /\ ret' = extract_documents(r)
    /\ UNCHANGED <<pipeline, concurrent>>

\* split_and_save on a three-page source, the rotation model answering for
\* every page.
Apply_split_and_save ==
    /\ applied = None
    /\ \E boundary \in SizedReplies, pypdf_raises \in BOOLEAN :
         \E r \in {split_and_save(PdfFile(40, TRUE, 3), <<"docproc", 1, "source">>, "source",
                                  boundary,
                                  Reply(None, "", JsonList(<<P(1, 90), P(2, 0), P(3, 180)>>), ""),
                                  pypdf_raises)} :
             /\ applied' = "split_and_save"
             /\ arg' = boundary
             /\ ret' = r
    /\ UNCHANGED <<pipeline, concurrent>>

\* Reply texts tried: JSON arrays, bare or between spaces and newlines, as
\* they are and wrapped in a code fence with no language tag, with the tag
\* json and with other tags, the fence lines ended by a newline or not.
JsonArrays == {<<"[", "]">>, <<"[", "1", "]">>, <<"[", "{", "}", ",", " ", "{", "}", "]">>}
Paddings == {<<>>, <<" ">>, <<"\n">>}
JsonArrayTexts == {l \o a \o r : l \in Paddings, a \in JsonArrays, r \in Paddings}
NoTag == <<>>
LanguageTags == {NoTag, <<"j", "s", "o", "n">>, <<"J", "S", "O", "N">>,
                 <<"j", "s", "o", "n", "c">>, <<"p", "y">>}
Fenced(t, tag, eol) == <<BT, BT, BT>> \o tag \o eol \o t \o eol \o <<BT, BT, BT>>

Apply__clean_json_response ==
    /\ applied = None
    /\ \E t \in JsonArrayTexts, fenced \in BOOLEAN, tag \in LanguageTags,
          eol \in {<<>>, <<"\n">>} :
         /\ ~fenced => (tag = NoTag /\ eol = <<>>)
         /\ applied' = "_clean_json_response"
         /\ arg' = [t |-> t, fenced |-> fenced, tag |-> tag,
                    text |-> IF fenced THEN Fenced(t, tag, eol) ELSE t]
         /\ ret' = [text |-> _clean_json_response_text(IF fenced THEN Fenced(t, tag, eol)
                                                         ELSE t)]
    /\ UNCHANGED <<pipeline, concurrent>>

\* extract_pdf_pages on sources of 0..MaxSourcePages pages, for every range
\* of page numbers around them, pypdf working or raising.
Apply_extract_pdf_pages ==
    /\ applied = None
    /\ \E n \in 0..MaxSourcePages, start_page \in -1..(MaxSourcePages + 2),
          end_page \in -1..(MaxSourcePages + 2), pypdf_raises \in BOOLEAN :
         /\ applied' = "extract_pdf_pages"
         /\ arg' = [source |-> PdfFile(40, TRUE, n), start_page |-> start_page,
                    end_page |-> end_page, pypdf_raises |-> pypdf_raises]
         /\ ret' = [pages |-> extract_pdf_pages(PdfFile(40, TRUE, n), start_page, end_page,
                                                pypdf_raises)]
    /\ UNCHANGED <<pipeline, concurrent>>

\* Error texts tried: a connection string with its account key, an API key
\* written as a key/value pair under each spelling of the name and each way
\* of writing the assignment, and a long opaque token after each kind of
\* delimiter; secret is the secret value the text holds.
AccountKeyValues == {<<"v", "e", "r", "y", "S", "e", "c", "r", "e", "t", "K", "e", "y", "1", "2", "3">>,
                     <<"Z", "m", "9", "v", "+", "Y", "m", "F", "y", "/", "c", "X", "V", "4", "=", "=">>}
ApiKeyNames == {<<"a", "p", "i", "_", "k", "e", "y">>,
                <<"a", "p", "i", "-", "k", "e", "y">>,
                <<"a", "p", "i", "k", "e", "y">>,
                <<"A", "P", "I", "K", "e", "y">>}
ApiKeyAssignments ==
    {[open |-> <<"=">>, close |-> <<>>],
     [open |-> <<":", " ">>, close |-> <<>>],
     [open |-> <<"=", "\"">>, close |-> <<"\"">>],
     [open |-> <<"\"", ":", " ", "\"">>, close |-> <<"\"">>],
     [open |-> <<"=", "'">>, close |-> <<"'">>],
     [open |-> <<"'", ":", " ", "'">>, close |-> <<"'">>]}
ApiKeyValues == {<<"s", "3", "c", "r", "3", "t", "9">>,
                 <<"s", "k", "-", "1", "2", "3", "4", "5", "a", "b", "c", "d", "e", "f">>}
TokenDelimiters == {<<"t", "o", "k", "e", "n", ":", " ">>, <<"s", "i", "g", "=">>,
                    <<"g", "i", "t", "h", "u", "b", "_", "p", "a", "t", "_">>}
SecretTexts ==
    {[text |-> <<"C", "o", "n", "n", "e", "c", "t", "i", "o", "n", " ", "f", "a", "i", "l", "e", "d", ":", " ">> \o AccountKeyLiteral \o v \o tail, secret |-> v] :
        v \in AccountKeyValues, tail \in {<<>>, <<";", "A", "c", "c", "o", "u", "n", "t", "N", "a", "m", "e", "=", "t", "e", "s", "t">>}}
    \cup {[text |-> <<"F", "a", "i", "l", "e", "d", " ", "w", "i", "t", "h", " ">> \o name \o a.open \o v \o a.close, secret |-> v] :
             name \in ApiKeyNames, a \in ApiKeyAssignments, v \in ApiKeyValues}
    \cup {[text |-> d \o Repeat("Z", n), secret |-> Repeat("Z", n)] :
             d \in TokenDelimiters, n \in {MIN_TOKEN_LEN, MIN_TOKEN_LEN + 5}}

Apply_sanitize_error_message ==
    /\ applied = None
    /\ \E e \in SecretTexts :
         /\ applied' = "sanitize_error_message"
         /\ arg' = e
         /\ ret' = [text |-> sanitize_error_message_text(e.text)]
    /\ UNCHANGED <<pipeline, concurrent>>

\* ------------------------------------------------ the split files' paths
\* str(n) of an int.
DecimalDigits == <<"0", "1", "2", "3", "4", "5", "6", "7", "8", "9">>
RECURSIVE PyStrInt(_)
PyStrInt(n) ==
    IF n < 0 THEN <<"-">> \o PyStrInt(-n)
    ELSE IF n < Len(DecimalDigits) THEN <<DecimalDigits[n + 1]>>
    ELSE PyStrInt(n \div Len(DecimalDigits))
             \o <<DecimalDigits[(n % Len(DecimalDigits)) + 1]>>

\* f"{base_filename}_{doc_type}_{i+1}_pages_{start_page}-{end_page}.pdf",
\* position being i+1.
output_filename(base_filename, doc_type, position, start_page, end_page) ==
    base_filename \o <<"_">> \o doc_type \o <<"_">> \o PyStrInt(position)
        \o <<"_", "p", "a", "g", "e", "s", "_">> \o PyStrInt(start_page)
        \o <<"-">> \o PyStrInt(end_page) \o <<".", "p", "d", "f">>

\* The separators of a path under os.name.
Platforms == {"posix", "nt"}
PathSeparators(platform) == IF platform = "nt" THEN {"/", "\\"} ELSE {"/"}

\* The segments of a text between separators.
SplitAtSeparators(chars, seps) ==
    LET n == Len(chars)
        cuts == <<0>> \o SelectSeq([i \in 1..n |-> i], LAMBDA i : chars[i] \in seps)
                     \o <<n + 1>>
    IN  [j \in 1..(Len(cuts) - 1) |-> SubSeq(chars, cuts[j] + 1, cuts[j + 1] - 1)]

\* output_dir / output_filename: pathlib drops empty and '.' segments and
\* keeps '..'.
PathJoin(output_dir, name, platform) ==
    output_dir \o SelectSeq(SplitAtSeparators(name, PathSeparators(platform)),
                            LAMBDA c : c # <<>> /\ c # <<".">>)

\* The path the Win32 layer opens: '..' removes the component before it,
\* whether or not that component exists.
NormalizeLexically(path) ==
    LET norm[k \in 0..Len(path)] ==
            IF k = 0 THEN <<>>
            ELSE IF path[k] # <<".", ".">> THEN Append(norm[k - 1], path[k])
            ELSE IF norm[k - 1] = <<>> THEN <<>>
            ELSE SubSeq(norm[k - 1], 1, Len(norm[k - 1]) - 1)
    IN  norm[Len(path)]

IsPrefix(p, q) == Len(p) <= Len(q) /\ SubSeq(q, 1, Len(p)) = p

\* with open(output_path, 'wb') as f: f.write(pdf_bytes), in an output
\* directory that holds regular files only.  Under posix the kernel walks
\* the components, and one that is missing or a regular file fails the
\* open; under nt the path is normalized first and its parent must be a
\* directory: output_dir or one of its ancestors.
open_wb(output_dir, output_path, platform) ==
    LET opened == IF platform = "nt" THEN NormalizeLexically(output_path)
                  ELSE output_path
        parent == SubSeq(opened, 1, Len(opened) - 1)
    IN  IF opened # <<>> /\ IsPrefix(parent, output_dir)
           /\ (platform = "posix" => parent = output_dir)
        THEN [exc |-> NoExc, path |-> opened]
        ELSE [exc |-> PyError("FileNotFoundError", <<"No such file or directory">>),
              path |-> <<>>]

\* The loop of split_and_save over documents whose page numbers are ints:
\* the file written for each document, up to the first open that raises.
WrittenSplitFiles(output_dir, base_filename, documents, platform) ==
    LET opens == [i \in 1..Len(documents) |->
                    open_wb(output_dir,
                            PathJoin(output_dir,
                                     output_filename(base_filename, documents[i].DOC_TYPE, i,
                                                     documents[i].START_PAGE_NO,
                                                     documents[i].END_PAGE_NO),
                                     platform),
                            platform)]
        failed == {i \in 1..Len(documents) : IsExc(opens[i].exc)}
        stop == IF failed = {} THEN Len(documents)
                ELSE (CHOOSE i \in failed : \A j \in failed : i <= j) - 1
    IN  [i \in 1..stop |-> opens[i].path]

\* DOC_TYPE values tried: plain ones, ones that imitate the rest of the
\* file name, and ones holding separators and '..'.
DocTypeTexts ==
    {<<"H", "A", "W", "B">>, <<"A">>, <<"A", "_", "1">>, <<>>,
     <<"A", "_", "1", "_", "p", "a", "g", "e", "s", "_", "1", "-", "1", ".", "p", "d", "f">>,
     <<"a", "/", "b">>, <<"/">>, <<".", ".">>,
     <<"/", ".", ".", "/", "x">>,
     <<"/", ".", ".", "/", ".", ".", "/", "x">>,
     <<"\\", ".", ".", "\\", ".", ".", "\\", "x">>}
SplitPageRanges == {<<1, 1>>, <<1, 11>>, <<11, 1>>, <<-1, 1>>}
OutputDir == <<(<<"t", "m", "p">>), (<<"d", "o", "c", "p", "r", "o", "c">>)>>

Apply_split_files ==
    /\ applied = None
    /\ \E platform \in Platforms, t1, t2 \in DocTypeTexts, r1, r2 \in SplitPageRanges :
         LET documents == <<[DOC_TYPE |-> t1, START_PAGE_NO |-> r1[1], END_PAGE_NO |-> r1[2]],
                            [DOC_TYPE |-> t2, START_PAGE_NO |-> r2[1], END_PAGE_NO |-> r2[2]]>>
         IN  /\ applied' = "split_files"
             /\ arg' = [platform |-> platform, output_dir |-> OutputDir,
                        documents |-> documents]
             /\ ret' = [paths |-> WrittenSplitFiles(OutputDir, <<"d", "o", "c">>,
                                                    documents, platform)]
    /\ UNCHANGED <<pipeline, concurrent>>

NextPure ==
    \/ Apply_validate_correlation_key
    \/ Apply_validate_blob_url
    \/ Apply_parse_queue_message
    \/ Apply_extract_documents
    \/ Apply_split_and_save
    \/ Apply__clean_json_response
    \/ Apply_extract_pdf_pages
    \/ Apply_sanitize_error_message
    \/ Apply_split_files

SpecPure == InitPure /\ [][NextPure]_vars

\* ---------------------------------------------------- concurrent first use
\* The host runs invocations of process_pdf_file on several threads of one
\* worker process.  Each invocation begins with get_storage_client() and
\* get_document_splitter(); a thread can be preempted between any two of
\* their statements.  SpecThreads follows the threads through these two
\* calls; the rest of the pipeline stays at rest.
InitThreads == InitPure

\* config = get_config() at module level, before any invocation.
ThreadsImport ==
    /\ shared["_app_config"] = NoInstance
    /\ shared' = [shared EXCEPT !["_app_config"] = Instance("AppConfig", 1)]
    /\ constructions' = [constructions EXCEPT !["_app_config"] = 1]
    /\ UNCHANGED <<pipeline, aside, thread>>

\* The host calls process_pdf_file on thread t.
Invoke(t) ==
    /\ shared["_app_config"] # NoInstance
    /\ thread[t].pc = "idle"
    /\ thread' = [thread EXCEPT ![t].pc = "test", ![t].h = "_storage_client"]
    /\ UNCHANGED <<pipeline, aside, shared, constructions>>

\* if _storage_client is None:  /  if _document_splitter is None:
TestNone(t) ==
    /\ thread[t].pc = "test"
    /\ thread' = [thread EXCEPT ![t].pc = IF shared[thread[t].h] = NoInstance
                                          THEN "get_config" ELSE "return"]
    /\ UNCHANGED <<pipeline, aside, shared, constructions>>

\* config = get_config(): _app_config was set by the import, so get_config
\* returns it.
GetConfig(t) ==
    /\ thread[t].pc = "get_config"
    /\ thread' = [thread EXCEPT ![t].pc = "construct",
                                ![t].config = shared["_app_config"]]
    /\ UNCHANGED <<pipeline, aside, shared, constructions>>

\* _storage_client = AzureStorageClient(...)  /
\* _document_splitter = DocumentSplitter(...)
Construct(t) ==
    /\ thread[t].pc = "construct"
    /\ LET h == thread[t].h
       IN  /\ constructions' = [constructions EXCEPT ![h] = @ + 1]
           /\ shared' = [shared EXCEPT ![h] = Instance(ClassOf(h), constructions[h] + 1)]
           /\ thread' = [thread EXCEPT ![t].pc = IF h = "_storage_client"
                                                 THEN "verify" ELSE "return"]
    /\ UNCHANGED <<pipeline, aside>>

\* _storage_client.blob_service_client.get_service_properties(): returns,
\* or raises and get_storage_client raises ConfigurationError.
Verify(t) ==
    /\ thread[t].pc = "verify"
    /\ \E properties_ok \in BOOLEAN :
          thread' = [thread EXCEPT ![t].pc = IF properties_ok THEN "return" ELSE "raised"]
    /\ UNCHANGED <<pipeline, aside, shared, constructions>>

\* return _storage_client  /  return _document_splitter
Return(t) ==
    /\ thread[t].pc = "return"
    /\ thread' = IF thread[t].h = "_storage_client"
                 THEN [thread EXCEPT ![t].storage_client = shared["_storage_client"],
                                     ![t].h = "_document_splitter",
                                     ![t].pc = "test"]
                 ELSE [thread EXCEPT ![t].document_splitter = shared["_document_splitter"],
                                     ![t].pc = "running"]
    /\ UNCHANGED <<pipeline, aside, shared, constructions>>

NextThreads ==
    \/ ThreadsImport
    \/ \E t \in Threads : Invoke(t)
    \/ \E t \in Threads : TestNone(t)
    \/ \E t \in Threads : GetConfig(t)
    \/ \E t \in Threads : Construct(t)
    \/ \E t \in Threads : Verify(t)
    \/ \E t \in Threads : Return(t)

SpecThreads == InitThreads /\ [][NextThreads]_vars

\* ------------------------------------------- concurrent temporary directories
\* Invocations running at the same time, and one after another, on the
\* threads of a worker whose handles are built: each creates its temporary
\* directory on the disk all of them share and removes it in its finally
\* block.
InitDirs == InitPure

\* The host calls process_pdf_file on thread t; get_storage_client() and
\* get_document_splitter() return the handles.
InvokeWarm(t) ==
    /\ thread[t].pc = "idle"
    /\ thread' = [thread EXCEPT ![t].pc = "validate", ![t].temp_dir = NoDir]
    /\ UNCHANGED <<pipeline, aside, shared, constructions>>

\* ValidatedRequest.from_queue_message on thread t returns or raises.
ThreadValidateRequest(t) ==
    /\ thread[t].pc = "validate"
    /\ \E body \in {M_valid, M_no_key} :
          thread' = [thread EXCEPT ![t].pc =
                        IF IsExc(from_queue_message(body, PyStr(InputContainer)).exc)
                        THEN "finally" ELSE "create_temp_dir"]
    /\ UNCHANGED <<pipeline, aside, shared, constructions>>

\* temp_dir = create_secure_temp_dir() on thread t.
ThreadCreateSecureTempDir(t) ==
    /\ thread[t].pc = "create_temp_dir"
    /\ \E name \in DirNames, os_error \in BOOLEAN :
          LET r == create_secure_temp_dir(name, fs, os_error)
          IN  /\ fs' = r.fs
              /\ thread' = [thread EXCEPT ![t].temp_dir = r.temp_dir,
                                          ![t].pc = IF IsExc(r.exc) THEN "finally"
                                                    ELSE "try_body"]
    /\ UNCHANGED <<invocation, aside, shared, constructions>>

\* The rest of the try body on thread t (download to notification) ends,
\* normally or in an except clause; it works inside temp_dir only.
ThreadTryBodyEnds(t) ==
    /\ thread[t].pc = "try_body"
    /\ thread' = [thread EXCEPT ![t].pc = "finally"]
    /\ UNCHANGED <<pipeline, aside, shared, constructions>>

\* finally: if temp_dir: cleanup_temp_dir(temp_dir); the invocation returns
\* and its locals are gone.
ThreadFinally(t) ==
    /\ thread[t].pc = "finally"
    /\ IF thread[t].temp_dir # NoDir
       THEN \E rmtree_raises \in BOOLEAN :
               fs' = cleanup_temp_dir(thread[t].temp_dir, fs, rmtree_raises)
       ELSE fs' = fs
    /\ thread' = [thread EXCEPT ![t].pc = "idle", ![t].temp_dir = NoDir]
    /\ UNCHANGED <<invocation, aside, shared, constructions>>

NextDirs ==
    \/ \E t \in Threads : InvokeWarm(t)
    \/ \E t \in Threads : ThreadValidateRequest(t)
    \/ \E t \in Threads : ThreadCreateSecureTempDir(t)
    \/ \E t \in Threads : ThreadTryBodyEnds(t)
    \/ \E t \in Threads : ThreadFinally(t)

SpecDirs == InitDirs /\ [][NextDirs]_vars

\* ------------------------------------------------- storage calls, stepwise
\* One call of download_blob, upload_file or upload_bytes followed through
\* the iterations of its retry loop, the SDK answering each attempt in any
\* of the ways of AttemptOutcomes.
StorageCalls == {"download_blob", "upload_file", "upload_bytes"}
Retryable == {"ServiceRequestError", "ServiceResponseError"}

\* One iteration of the retry loop with every exception retried.
retry_attempt_retries_every_error(attempt, o) ==
    IF o = "ok" THEN [done |-> TRUE, exc |-> NoExc, attempt |-> attempt]
    ELSE IF attempt = MAX_RETRIES - 1
    THEN [done |-> TRUE, exc |-> PyError(o, SdkErrorText(o)), attempt |-> attempt]
    ELSE [done |-> FALSE, exc |-> NoExc, attempt |-> attempt + 1]

\* One iteration of the loop 'for attempt in range(MAX_RETRIES)': whether
\* the call ends in it, the exception it raises and the next attempt.
retry_attempt(attempt, o) ==
    IF o = "ok" THEN [done |-> TRUE, exc |-> NoExc, attempt |-> attempt]
    ELSE IF o \in Retryable
    THEN IF attempt = MAX_RETRIES - 1
         THEN [done |-> TRUE, exc |-> PyError(o, SdkErrorText(o)), attempt |-> attempt]
         ELSE [done |-> FALSE, exc |-> NoExc, attempt |-> attempt + 1]
    ELSE [done |-> TRUE, exc |-> PyError(o, SdkErrorText(o)), attempt |-> attempt]

InitRetry == InitPure

\* The call begins; upload_file first tests that the local file exists.
CallStorage ==
    /\ applied = None
    /\ \E f \in StorageCalls, file_exists \in BOOLEAN :
         /\ f # "upload_file" => file_exists
         /\ applied' = f
         /\ arg' = [attempt |-> 0, outcomes |-> <<>>, file_exists |-> file_exists]
         /\ ret' = IF file_exists THEN [done |-> FALSE, exc |-> NoExc]
                   ELSE [done |-> TRUE,
                         exc |-> PyError("FileNotFoundError", <<"File not found">>)]
    /\ UNCHANGED <<pipeline, concurrent>>

\* The next iteration of the loop, or the raise that follows the loop.
RetryAttempt ==
    /\ applied \in StorageCalls
    /\ ~ret.done
    /\ IF arg.attempt >= MAX_RETRIES
       THEN /\ ret' = [done |-> TRUE,
                       exc |-> PyError("AzureError", <<"failed after all retries">>)]
            /\ arg' = arg
       ELSE \E o \in AttemptOutcomes :
               LET r == retry_attempt(arg.attempt, o)
               IN  /\ arg' = [arg EXCEPT !.attempt = r.attempt,
                                         !.outcomes = Append(@, o)]
                   /\ ret' = [done |-> r.done, exc |-> r.exc]
    /\ applied' = applied
    /\ UNCHANGED <<pipeline, concurrent>>

NextRetry ==
    \/ CallStorage
    \/ RetryAttempt

SpecRetry == InitRetry /\ [][NextRetry]_vars

\* ------------------------------------------- RequestMetadata, concurrently
\* Threads of one process calling RequestMetadata.initialize(...), each
\* followed through the statements of __new__; a thread can be preempted
\* between any two of them.  The values of the four metadata fields are
\* not followed.
InitMetadata == InitPure

\* The class body runs at import: '_instance: Optional[...] = None'.
ImportRequestMetadata ==
    /\ "_instance" \notin DOMAIN shared
    /\ shared' = shared @@ ("_instance" :> NoInstance)
    /\ constructions' = constructions @@ ("_instance" :> 0)
    /\ UNCHANGED <<pipeline, aside, thread>>

\* Thread t calls RequestMetadata.initialize(...): instance = cls().
CallInitialize(t) ==
    /\ "_instance" \in DOMAIN shared
    /\ thread[t].pc = "idle"
    /\ thread' = [thread EXCEPT ![t].pc = "new_test", ![t].obj = NoInstance,
                                ![t].instance = NoInstance]
    /\ UNCHANGED <<pipeline, aside, shared, constructions>>

\* __new__: if cls._instance is None:
NewTestNone(t) ==
    /\ thread[t].pc = "new_test"
    /\ thread' = [thread EXCEPT ![t].pc = IF shared["_instance"] = NoInstance
                                          THEN "new_lock" ELSE "new_return"]
    /\ UNCHANGED <<pipeline, aside, shared, constructions>>

\* with threading.Lock(): the expression builds a lock of its own for this
\* call and acquires it; no other thread holds that lock, so the acquire
\* never waits.
NewLock(t) ==
    /\ thread[t].pc = "new_lock"
    /\ thread' = [thread EXCEPT ![t].pc = "new_test_locked"]
    /\ UNCHANGED <<pipeline, aside, shared, constructions>>

\* if cls._instance is None:  (inside the with block)
NewTestLocked(t) ==
    /\ thread[t].pc = "new_test_locked"
    /\ thread' = [thread EXCEPT ![t].pc = IF shared["_instance"] = NoInstance
                                          THEN "new_super" ELSE "new_return"]
    /\ UNCHANGED <<pipeline, aside, shared, constructions>>

\* super().__new__(cls): the right-hand side of the assignment.
NewSuperNew(t) ==
    /\ thread[t].pc = "new_super"
    /\ constructions' = [constructions EXCEPT !["_instance"] = @ + 1]
    /\ thread' = [thread EXCEPT ![t].pc = "new_assign",
                                ![t].obj = Instance("RequestMetadata",
                                                    constructions["_instance"] + 1)]
    /\ UNCHANGED <<pipeline, aside, shared>>

\* cls._instance = <the new object>; the with block ends and releases the
\* call's own lock.
NewAssign(t) ==
    /\ thread[t].pc = "new_assign"
    /\ shared' = [shared EXCEPT !["_instance"] = thread[t].obj]
    /\ thread' = [thread EXCEPT ![t].pc = "new_return"]
    /\ UNCHANGED <<pipeline, aside, constructions>>

\* return cls._instance
NewReturn(t) ==
    /\ thread[t].pc = "new_return"
    /\ thread' = [thread EXCEPT ![t].pc = "init_fields",
                                ![t].instance = shared["_instance"]]
    /\ UNCHANGED <<pipeline, aside, shared, constructions>>

\* __init__ and the four assignments of initialize on the instance it got;
\* return instance.
InitializeReturns(t) ==
    /\ thread[t].pc = "init_fields"
    /\ thread' = [thread EXCEPT ![t].pc = "idle"]
    /\ UNCHANGED <<pipeline, aside, shared, constructions>>

NextMetadata ==
    \/ ImportRequestMetadata
    \/ \E t \in Threads : CallInitialize(t)
    \/ \E t \in Threads : NewTestNone(t)
    \/ \E t \in Threads : NewLock(t)
    \/ \E t \in Threads : NewTestLocked(t)
    \/ \E t \in Threads : NewSuperNew(t)
    \/ \E t \in Threads : NewAssign(t)
    \/ \E t \in Threads : NewReturn(t)
    \/ \E t \in Threads : InitializeReturns(t)

SpecMetadata == InitMetadata /\ [][NextMetadata]_vars

\* ================================================================ claims
Range(seq) == {seq[i] : i \in 1..Len(seq)}
Permanent(e) ==
    e.type = "ValidationError" \/ (e.type = "ProcessingError" /\ e.severity = PERMANENT)
Transient(e) == e.type = "ProcessingError" /\ e.severity = TRANSIENT
Critical(e) ==
    e.type = "ConfigurationError" \/ (e.type = "ProcessingError" /\ e.severity = CRITICAL)
Unclassified(e) ==
    IsExc(e) /\ e.type \notin {"ConfigurationError", "ValidationError", "ProcessingError"}
\* Positions at which the except clause of the invocation has run.
Handled == pc \in {"finally", "exit", "queued", "done", "poison"}
\* Positions between two invocations.
Returned == pc \in {"exit", "queued", "done", "poison"}

\* ---------------------------------------------------------------- C1
\* C1 (as stated): across all deliveries of one WorkItem exactly one Outcome
\* is ever published on the results queue, never zero and never two.
C1_ExactlyOneOutcomePerWorkItem ==
    /\ Len(published) <= 1
    /\ pc \in {"done", "poison"} => Len(published) = 1

\* C1 (amended): every delivery of the WorkItem publishes exactly one
\* Outcome, so the results queue holds one Outcome per delivery made; every
\* delivery that raised published a failure Outcome, and a success Outcome
\* can only be the last one.
C1_OneOutcomePerDelivery ==
    /\ Len(outputQueue) <= 1
    /\ Len(published) <= dequeueCount
    /\ Returned => (Len(published) = dequeueCount /\ (dequeueCount > 0 => Len(outputQueue) = 1))
    /\ \A i \in 1..Len(published) :
          published[i].status = "success" => (i = dequeueCount /\ ~raised)

\* Extraction succeeded and the upload failed on the first delivery; the
\* redelivery succeeded: two Outcomes for one WorkItem.
C1_Witness ==
    /\ pc = "done"
    /\ Len(published) = 2
    /\ published[1].status = "failure"
    /\ published[1].errorMessage[1] = "Failed to upload results:"
    /\ published[2].status = "success"

\* ---------------------------------------------------------------- C2
TooManyDocuments(e) == "Too many documents returned by AI" \in Range(e.msg)

\* C2: a boundary reply of more than MAX_OUTPUT_FILES descriptors fails the
\* pipeline with Permanent severity: one failure Outcome, no raise, no
\* redelivery.
C2_TooManyDocumentsIsPermanent ==
    (Handled /\ TooManyDocuments(exc)) =>
        /\ Permanent(exc)
        /\ ~raised
        /\ Len(outputQueue) = 1
        /\ outputQueue[1].status = "failure"
        /\ pc \notin {"queued", "poison"}

\* ---------------------------------------------------------------- C3
\* The pdfBlobUrl of the message fails validate_blob_url.
UrlRejected ==
    LET body == parse_queue_message(msg)
    IN  /\ ~IsExc(body.exc)
        /\ ~IsExc(validate_correlation_key(body.correlationKey))
        /\ IsExc(validate_blob_url(body.pdfBlobUrl, PyStr(InputContainer)))

\* C3: an invocation on a WorkItem whose pdfBlobUrl fails validation makes
\* no network call to object storage or to the model.
C3_NoNetworkCallOnRejectedUrl ==
    (UrlRejected /\ dequeueCount > 0) => netcalls = {}

\* ---------------------------------------------------------------- C4
\* C4: a Permanent failure publishes one failure Outcome carrying the error
\* text, process_pdf_file returns without raising and the host does not
\* redeliver.
C4_PermanentNotifiesAndReturns ==
    (Handled /\ Permanent(exc)) =>
        /\ ~raised
        /\ outputQueue = <<send_error_result(correlation_key, exc.msg)>>
        /\ pc \notin {"queued", "poison"}

\* A PDF rejected by validate_pdf_file: notified once, message deleted.
C4_Witness ==
    /\ pc = "done"
    /\ exc = ProcessingError(<<"PDF file is empty">>, PERMANENT)
    /\ Len(published) = 1
    /\ published[1].status = "failure"

\* ---------------------------------------------------------------- C5
\* C5: a Transient failure publishes one failure Outcome and is re-raised
\* out of process_pdf_file, so the host redelivers the message (or parks it
\* once the deliveries are used up).
C5_TransientNotifiesAndRaises ==
    (Handled /\ Transient(exc)) =>
        /\ raised
        /\ outputQueue = <<send_error_result(correlation_key, exc.msg)>>
        /\ pc # "done"

\* A failed upload: notified, raised, and the message is back on the queue.
C5_Witness ==
    /\ pc = "queued"
    /\ dequeueCount = 1
    /\ Transient(exc)
    /\ exc.msg[1] = "Failed to upload results:"
    /\ Len(published) = 1
    /\ published[1].status = "failure"

\* ---------------------------------------------------------------- C6
\* C6: while the storage or model configuration is invalid every invocation
\* ends in a Critical failure: one failure Outcome, and the error propagates.
C6_CriticalOnEveryInvocation ==
    (pc = "exit" /\ (env.storage # "ok" \/ ~env.gemini_ok)) =>
        /\ Critical(exc)
        /\ raised
        /\ Len(outputQueue) = 1
        /\ outputQueue[1].status = "failure"

\* ---------------------------------------------------------------- C7
\* C7: an exception of none of the three pipeline classes publishes one
\* failure Outcome whose message is the sanitized exception text, and is
\* re-raised out of process_pdf_file.
C7_UnclassifiedSanitizedAndRaised ==
    (Handled /\ Unclassified(exc)) =>
        /\ raised
        /\ outputQueue = <<[correlationKey |-> correlation_key, status |-> "failure",
                            errorMessage |-> sanitize_error_message(exc.msg)]>>
        /\ pc # "done"

\* A RuntimeError whose text holds a secret-shaped token.
C7_Witness ==
    /\ pc = "exit"
    /\ exc = PyError("RuntimeError", <<"unexpected failure", SecretToken40>>)
    /\ raised
    /\ published[Len(published)].errorMessage = <<"unexpected failure", "***REDACTED***">>

\* ---------------------------------------------------------------- C8
\* The rotation model failed: the call raised or timed out, the reply is
\* empty, is not JSON, or holds an entry that is no object or lacks PAGE_NO
\* or ROTATION.
RotationEstimationFailed(r) ==
    LET t == _clean_json_response(r)
    IN  \/ r.raises # None
        \/ TextIsEmpty(r)
        \/ TextIsEmpty(t)
        \/ JsonLoadsFails(t)
        \/ \E i \in 1..Len(AsList(t.body)) :
              \/ AsList(t.body)[i].t # "dict"
              \/ {"PAGE_NO", "ROTATION"} \ DOMAIN AsList(t.body)[i].d # {}

AllRotationsZero(res) ==
    \A i \in 1..Len(res.documents) :
        \A j \in 1..Len(res.documents[i].PAGES_INFO) :
            res.documents[i].PAGES_INFO[j].ROTATION = 0

\* C8: a failure of rotation estimation never fails split_and_save: the
\* split succeeds and every PAGES_INFO entry has ROTATION 0.
C8_RotationFailureTolerated ==
    (rotation_reply # NoReply /\ RotationEstimationFailed(rotation_reply)) =>
        /\ "split" \in succeeded
        /\ AllRotationsZero(results)

PipelineOrder == <<"validate", "download", "validate_pdf", "extract", "split",
                   "package", "upload", "notify">>
\* The steps started, rotation estimation (a part of the split) left out.
Pipeline == SelectSeq(steps, LAMBDA s : s # "rotation")

\* C10: the steps of an invocation start in the pipeline order, each only
\* after every earlier one succeeded; the model is not called on a PDF
\* that fails validate_pdf_file; a success Outcome follows the upload.
C10_StepsStrictlyOrdered ==
    /\ Len(Pipeline) <= Len(PipelineOrder)
    /\ \A i \in 1..Len(Pipeline) : Pipeline[i] = PipelineOrder[i]
    /\ \A i \in 1..(Len(Pipeline) - 1) : Pipeline[i] \in succeeded
    /\ ({"model:extract_documents", "model:extract_rotation_info"} \cap netcalls # {}) =>
          (~IsExc(validate_pdf_file(pdf_file)) /\ "validate_pdf" \in succeeded)
    /\ \A i \in 1..Len(outputQueue) :
          outputQueue[i].status = "success" =>
              /\ "upload" \in succeeded
              /\ "storage:upload_blob" \in netcalls
              /\ outputQueue[i].resultsBlobUrl = zip_url
              /\ zip_url # <<>>

\* The whole pipeline ran and the success Outcome was published.
C10_Witness ==
    /\ pc = "done"
    /\ Pipeline = PipelineOrder
    /\ Len(published) = 1
    /\ published[1].status = "success"

\* C11: validate_correlation_key returns the key unchanged for every key of
\* 1 to 128 characters drawn from [A-Za-z0-9_-] and raises ValidationError
\* for every other key (longer, empty, or holding '/', '\\', '..', whitespace
\* or any other character outside the alphabet).
WellFormedKey(key) ==
    /\ key.t = "str"
    /\ Len(key.v) >= 1
    /\ Len(key.v) <= MAX_KEY_LEN
    /\ \A i \in 1..Len(key.v) : key.v[i] \in KeyAlphabet

C11_KeyAcceptedIffWellFormed ==
    applied = "validate_correlation_key" =>
        /\ WellFormedKey(arg) => ret = NoExc
        /\ ~WellFormedKey(arg) => ret.type = "ValidationError"

\* C12: validate_blob_url, given the list of allowed containers, returns the
\* URL unchanged when the URL uses https, is at most 2048 characters long,
\* has a host ending in .blob.core.windows.net and names a container of the
\* list, and raises ValidationError when any one of these conditions fails.
UrlMeetsConditions(url, allowed_containers) ==
    /\ url.v.scheme = "https"
    /\ url.len <= MAX_URL_LEN
    /\ EndsWithBlobDomain(url.v.hostname)
    /\ Len(url.v.path) >= 1
    /\ url.v.path[1] \in Range(allowed_containers.v)

C12_UrlAcceptedIffConditionsHold ==
    (applied = "validate_blob_url" /\ arg.allowed_container.t = "list") =>
        /\ UrlMeetsConditions(arg.url, arg.allowed_container) => ret = NoExc
        /\ ~UrlMeetsConditions(arg.url, arg.allowed_container)
               => ret.type = "ValidationError"

\* C13: parse_queue_message returns a request only when the correlation key
\* and the blob URL are both present as string values, each under its
\* camelCase or its snake_case name, and the request holds those values;
\* invalid UTF-8, invalid JSON, a top level that is no object, a field
\* missing under both names or a field with no string value under either
\* name raises ValidationError, which process_pdf_file handles as a
\* Permanent failure (notified, not re-raised).
HasString(a, b) == a.t = "str" \/ b.t = "str"
Malformed(body) ==
    \/ ~body.utf8
    \/ ~body.json
    \/ body.top # "dict"
    \/ ~HasString(body.correlationKey, body.correlation_key)
    \/ ~HasString(body.pdfBlobUrl, body.pdf_blob_url)

ParsedDescriptors(r) ==
    LET body == _clean_json_response(r).body
    IN  IF body.isList THEN body.items ELSE <<body.object>>
ParsesAsJson(r) ==
    r.raises = None /\ ~TextIsEmpty(r) /\ ~JsonLoadsFails(_clean_json_response(r))

C14_DescriptorLimit ==
    /\ (applied = "extract_documents" /\ ParsesAsJson(arg)) =>
          /\ Len(ParsedDescriptors(arg)) > MAX_OUTPUT_FILES
                => (IsExc(ret.exc) /\ ret.documents = <<>>)
          /\ Len(ParsedDescriptors(arg)) <= MAX_OUTPUT_FILES
                => (ret.exc = NoExc /\ ret.documents = ParsedDescriptors(arg))
    /\ (applied = "split_and_save" /\ ParsesAsJson(arg)
           /\ Len(ParsedDescriptors(arg)) > MAX_OUTPUT_FILES) =>
          /\ IsExc(ret.exc)
          /\ ret.files = <<>>
          /\ ret.trace = <<"extract">>
          /\ ret.results.documents = <<>>

\* split_and_save on a reply of 101 descriptors has failed without a file.
C14_Witness ==
    /\ applied = "split_and_save"
    /\ ParsesAsJson(arg)
    /\ Len(ParsedDescriptors(arg)) = MAX_OUTPUT_FILES + 1
    /\ IsExc(ret.exc)
    /\ ret.files = <<>>

\* C15: for every valid JSON array text t, _clean_json_response(t) = t, and
\* _clean_json_response of t wrapped in a code fence (three backticks,
\* optionally a language tag, t, three backticks) is t as well; a second
\* application leaves either result unchanged.
C15_FenceStrippingYieldsArray ==
    applied = "_clean_json_response" =>
        /\ ret.text = arg.t
        /\ _clean_json_response_text(ret.text) = ret.text

\* C16: extract_pdf_pages(source, s, e) on a source of N pages returns a
\* document whose pages are exactly the source pages p with s <= p <= e and
\* 1 <= p <= N, ascending: the range [1, N] gives all N pages in order,
\* numbers outside [1, N] are skipped, an empty range gives zero pages.
C16_PagesAreThoseInRange ==
    applied = "extract_pdf_pages" =>
        ret.pages = SelectSeq(arg.source.pages,
                              LAMBDA p : arg.start_page <= p /\ p <= arg.end_page)

\* C17: the archive create_results_zip builds for a run that detected n >= 0
\* documents holds the manifest entry and exactly one entry for each of the
\* n split files written to the output directory, under the file's name.
C17_ArchiveHoldsEverySplitFile ==
    zip_path.exists =>
        /\ Cardinality({i \in 1..Len(zip_path.entries) :
                           zip_path.entries[i].arcname = <<"extraction_results.json">>}) = 1
        /\ \A k \in 1..Len(output_files) :
              Cardinality({i \in 1..Len(zip_path.entries) :
                              zip_path.entries[i].arcname = output_files[k].name}) = 1

\* C18: running the full pipeline twice on the same WorkItem with identical
\* model responses produces byte-identical manifests (the extraction
\* results JSON placed in the archive).
C18_RerunGivesIdenticalManifest ==
    \A a, b \in manifests :
        (a.pdf_file = b.pdf_file /\ a.boundary = b.boundary /\ a.rotation = b.rotation)
            => a.manifest = b.manifest

\* C19: when several invocations call get_storage_client,
\* get_document_splitter or get_config concurrently for the first time,
\* each shared handle is constructed at most once and every caller receives
\* the same instance.
C19_HandlesConstructedOnce ==
    /\ \A h \in Handles : constructions[h] <= 1
    /\ \A t, u \in Threads :
          /\ (thread[t].storage_client # NoInstance /\ thread[u].storage_client # NoInstance)
                => thread[t].storage_client = thread[u].storage_client
          /\ (thread[t].document_splitter # NoInstance
                 /\ thread[u].document_splitter # NoInstance)
                => thread[t].document_splitter = thread[u].document_splitter
          /\ (thread[t].config # NoInstance /\ thread[u].config # NoInstance)
                => thread[t].config = thread[u].config

\* C20: every blocking step of an invocation (PDF download, the two model
\* calls, archive upload) is bounded by a timeout, so an invocation that
\* has reached such a step always ends, notified or failed, even when the
\* external call never returns.
C20_BlockingStepsEnd ==
    [](pc \in {"download", "process", "upload"} => <>Returned)

\* C21: when the page splitter cannot build the requested page range it
\* fails with an error instead of returning other bytes, so every split
\* file written by split_and_save contains only pages of its descriptor's
\* [START_PAGE_NO, END_PAGE_NO] range.
C21_SplitFilesHoldOnlyRangePages ==
    \A k \in 1..Len(output_files) :
        \A p \in Range(output_files[k].pages) :
            /\ results.documents[k].START_PAGE_NO <= p
            /\ p <= results.documents[k].END_PAGE_NO

\* The page -> rotation lookup split_and_save builds from the reply of the
\* rotation model: empty when the estimation failed.
RotationLookup(reply) ==
    LET all_rotations_result == extract_rotation_info_safe(reply)
    IN  IF is_success(all_rotations_result) THEN RotationMap(all_rotations_result.data)
        ELSE <<>>

\* C22: for each descriptor, the PAGES_INFO list produced by the rotation
\* merge has exactly one entry per page number in [START_PAGE_NO,
\* END_PAGE_NO], in ascending page order, whose ROTATION is the value the
\* rotation lookup holds for that page and 0 for every page absent from it.
C22_PagesInfoFollowsLookup ==
    \A i \in 1..Len(results.documents) :
        LET d == results.documents[i]
            lookup == RotationLookup(rotation_reply)
        IN  /\ Len(d.PAGES_INFO) = Max(d.END_PAGE_NO - d.START_PAGE_NO + 1, 0)
            /\ \A j \in 1..Len(d.PAGES_INFO) :
                  /\ d.PAGES_INFO[j].PAGE_NO = d.START_PAGE_NO + j - 1
                  /\ d.PAGES_INFO[j].ROTATION =
                        IF d.PAGES_INFO[j].PAGE_NO \in DOMAIN lookup
                        THEN lookup[d.PAGES_INFO[j].PAGE_NO] ELSE 0

\* A document of pages 2-3 merged with a lookup that holds page 2 only.
C22_Witness ==
    /\ pc = "package"
    /\ DOMAIN RotationLookup(rotation_reply) = {1, 2}
    /\ Len(results.documents) = 2
    /\ results.documents[2].PAGES_INFO = <<[PAGE_NO |-> 2, ROTATION |-> 270],
                                           [PAGE_NO |-> 3, ROTATION |-> 0]>>

C24_TempDirNeverShared ==
    /\ [](\A t, u \in Threads :
             (t # u /\ thread[t].temp_dir # NoDir)
                 => thread[t].temp_dir # thread[u].temp_dir)
    /\ [](\A t \in Threads : thread[t].temp_dir # NoDir => thread[t].temp_dir \in fs)
    /\ [][/\ \A t \in Threads :
                (thread'[t].temp_dir # NoDir /\ thread'[t].temp_dir # thread[t].temp_dir)
                    => (thread'[t].temp_dir \notin fs /\ thread'[t].temp_dir \in fs')
          /\ \A d \in fs \ fs' :
                \E t \in Threads :
                    /\ thread[t].pc = "finally"
                    /\ thread[t].temp_dir = d
                    /\ thread'[t].pc = "idle"]_vars

\* Two invocations run at the same time, each in a directory of its own,
\* while a directory an earlier cleanup failed to remove may remain.
C24_Witness ==
    \E t, u \in Threads :
        /\ t # u
        /\ thread[t].pc = "try_body"
        /\ thread[u].pc = "finally"
        /\ thread[t].temp_dir # NoDir
        /\ thread[u].temp_dir # NoDir
        /\ thread[t].temp_dir # thread[u].temp_dir

\* sub occurs in text as a run of consecutive characters.
Contains(text, sub) ==
    \E i \in 1..(Len(text) - Len(sub) + 1) : SubSeq(text, i, i + Len(sub) - 1) = sub

\* C25: the errorMessage of every failure Outcome is the result of
\* sanitize_error_message and contains no AccountKey=<value> pair, no
\* api_key-style key/value secret and no alphanumeric token of 40 or more
\* characters taken from the original error text: the secret value of the
\* text does not occur in the sanitized text.
C25_NoSecretInErrorMessage ==
    applied = "sanitize_error_message" => ~Contains(ret.text, arg.secret)

\* The correlation key the message carries, under either of its names.
CarriedKey == PyOr(msg.correlationKey, msg.correlation_key)
CarriesValidKey ==
    /\ msg.utf8
    /\ msg.json
    /\ msg.top = "dict"
    /\ CarriedKey.t = "str"
    /\ ~IsExc(validate_correlation_key(CarriedKey))

\* C26: whenever the inbound message carries a valid correlation key, every
\* Outcome published for that WorkItem has correlationKey equal to it, on
\* the success path and on every failure path, including a rejected
\* pdfBlobUrl and a configuration error.
C26_OutcomeCarriesCorrelationKey ==
    CarriesValidKey =>
        \A i \in 1..Len(published) : published[i].correlationKey = CarriedKey.v

\* C27: within a single invocation of process_pdf_file the output binding
\* is set exactly once on every exit path: once with a success message when
\* all steps succeeded, otherwise once with a failure message, and never
\* with both.
C27_BindingSetOncePerInvocation ==
    /\ Len(outputQueue) <= 1
    /\ pc = "exit" =>
          /\ Len(outputQueue) = 1
          /\ outputQueue[1].status \in {"success", "failure"}
          /\ outputQueue[1].status = "success"
                <=> (~IsExc(exc) /\ Range(PipelineOrder) \subseteq succeeded)
          /\ outputQueue[1].status = "failure" <=> IsExc(exc)

\* Extraction and packaging succeeded and the upload failed: the invocation
\* ends with one failure message on the binding.
C27_Witness ==
    /\ pc = "exit"
    /\ "package" \in succeeded
    /\ "upload" \in Range(steps)
    /\ "upload" \notin succeeded
    /\ Len(outputQueue) = 1
    /\ outputQueue[1].status = "failure"

\* C28: download_blob, upload_file and upload_bytes make at most
\* MAX_RETRIES attempts per call: an attempt is repeated only after a
\* ServiceRequestError or ServiceResponseError, the first successful
\* attempt returns immediately, after the third such failure that error is
\* raised to the caller, and any other error is raised after a single
\* attempt.
C28_AtMostMaxRetriesAttempts ==
    (applied \in StorageCalls /\ arg.file_exists) =>
        LET n == Len(arg.outcomes)
        IN  /\ n <= MAX_RETRIES
            /\ \A i \in 1..(n - 1) : arg.outcomes[i] \in Retryable
            /\ ~ret.done => (n < MAX_RETRIES /\ (n > 0 => arg.outcomes[n] \in Retryable))
            /\ ret.done =>
                  /\ n >= 1
                  /\ arg.outcomes[n] = "ok" => ret.exc = NoExc
                  /\ arg.outcomes[n] \in Retryable =>
                        (n = MAX_RETRIES /\ ret.exc.type = arg.outcomes[n])
                  /\ arg.outcomes[n] \notin Retryable \cup {"ok"} =>
                        ret.exc.type = arg.outcomes[n]

\* An upload that failed twice with connection errors and then succeeded.
C28_Witness ==
    /\ applied = "upload_file"
    /\ arg.file_exists
    /\ arg.outcomes = <<"ServiceRequestError", "ServiceResponseError", "ok">>
    /\ ret.done
    /\ ret.exc = NoExc

\* C29: RequestMetadata is a thread-safe singleton: under any interleaving
\* of concurrent first constructions at most one instance is ever created,
\* and every caller obtains that same instance.
C29_RequestMetadataSingleton ==
    "_instance" \in DOMAIN shared =>
        /\ constructions["_instance"] <= 1
        /\ \A t, u \in Threads :
              (thread[t].instance # NoInstance /\ thread[u].instance # NoInstance)
                  => thread[t].instance = thread[u].instance

\* C30: every split sub-document file written by split_and_save lies
\* directly inside the given output directory, and distinct descriptors
\* are written to distinct file names, whatever DOC_TYPE, START_PAGE_NO
\* and END_PAGE_NO values the model returns.
C30_SplitFilesInsideOutputDir ==
    applied = "split_files" =>
        /\ \A i \in 1..Len(ret.paths) :
              SubSeq(ret.paths[i], 1, Len(ret.paths[i]) - 1) = arg.output_dir
        /\ \A i, j \in 1..Len(ret.paths) : i # j => ret.paths[i] # ret.paths[j]

\* The same where the platform is posix.
C30_SplitFilesInsideOutputDir_posix ==
    (applied = "split_files" /\ arg.platform = "posix") => C30_SplitFilesInsideOutputDir

\* Distinct descriptors never share a path, on either platform.
C30_SplitFilesDistinct ==
    applied = "split_files" =>
        \A i, j \in 1..Len(ret.paths) : i # j => ret.paths[i] # ret.paths[j]

====
